---- MODULE Spec2Model ----
(***************************************************************************)
(* A model of the glyph atlas + instanced quad renderer BackendD3D         *)
(* (src/src/renderer/atlas/BackendD3D.cpp).                                *)
(*                                                                         *)
(* One call of BackendD3D::Render is a sequence of steps (pc); the text    *)
(* pass is modelled per statement of its loops because its retry loop is   *)
(* what several properties are about.  The renderer object is the record   *)
(* `backend`; its fields `rtDrawing`, `blendState` and `atlasSize` are the *)
(* state of the graphics device, and the fields `drawn`, `appended`,       *)
(* `flushWhileDrawing`, `resetWhileDrawing`, `nestedBeginDraw`,            *)
(* `resetsInRun`, `maxResetsInRun`, `resetsInFrame`, `resetOnEmptyAtlas`,  *)
(* `justReset`, `outerBeforeReset`, `packFull`, `packFullAt`, `thrown`,    *)
(* `postProcessed` and `presented` are observations of what the renderer   *)
(* did (history), not state it reads.                                      *)
(*                                                                         *)
(* Lengths are in pixels; glyph boxes, advances and baselineX, which are   *)
(* floats in the source, are in half pixels so that lrintf is a real       *)
(* rounding.                                                               *)
(***************************************************************************)
EXTENDS Integers, Sequences, FiniteSets, TLC

(***************************************************************************)
(* Bounds of the model.                                                    *)
(***************************************************************************)
MaxFrames == 1
MaxRows == 2
MaxResetsCounted == 3

(***************************************************************************)
(* Program constants.                                                      *)
(***************************************************************************)
minArea == 16384
D3D10_REQ_TEXTURE2D_U_OR_V_DIMENSION == 8192
maxArea == D3D10_REQ_TEXTURE2D_U_OR_V_DIMENSION * D3D10_REQ_TEXTURE2D_U_OR_V_DIMENSION
SoftFontFirstGlyph == 61216

(***************************************************************************)
(* Integer types of the source.                                            *)
(***************************************************************************)
Min(a, b) == IF a < b THEN a ELSE b
Max(a, b) == IF a > b THEN a ELSE b
clamp(v, lo, hi) == IF v < lo THEN lo ELSE IF v > hi THEN hi ELSE v

ToU16(v) == v % 65536
ToI16(v) == ((v + 32768) % 65536) - 32768

\* lrintf under the default rounding mode (to nearest, ties to even); the
\* argument is in half pixels, the result in pixels.
lrintf(h) ==
    LET q == h \div 2
    IN  IF h % 2 = 0 THEN q
        ELSE IF q % 2 = 0 THEN q ELSE q + 1

RECURSIVE Log2Floor(_)
Log2Floor(v) == IF v <= 1 THEN 0 ELSE 1 + Log2Floor(v \div 2)

\* _BitScanReverse: the index of the highest set bit; the index is undefined
\* when the input is 0, so every index is a possible outcome there.
BitScanReverse(v) == IF v = 0 THEN 0 .. 31 ELSE {Log2Floor(v)}

RECURSIVE Pow2(_)
Pow2(n) == IF n = 0 THEN 1 ELSE 2 * Pow2(n - 1)

(***************************************************************************)
(* Enumerations.                                                           *)
(***************************************************************************)
LineRenditions == {"SingleWidth", "DoubleWidth", "DoubleHeightTop", "DoubleHeightBottom"}

\* lineRendition >= LineRendition::DoubleHeightTop
IsDoubleHeight(r) == r \in {"DoubleHeightTop", "DoubleHeightBottom"}

\* A shading type is one variant plus the LigatureMarker bit.
ShadingType(type, ligature) == [type |-> type, ligatureMarker |-> ligature]
ShadingDefault == ShadingType("Default", FALSE)
ShadingBackground == ShadingType("Background", FALSE)
ShadingSolidFill == ShadingType("SolidFill", FALSE)

Phases == <<"background", "cursor1", "text", "gridlines", "cursor2", "selection">>
PhaseRank(ph) == CHOOSE i \in 1 .. Len(Phases) : Phases[i] = ph

XY(x, y) == [x |-> x, y |-> y]

\* sizeof(QuadInstance), in bytes.
SizeofQuadInstance == 32

\* A u32 color as its alpha byte and its 24 rgb bits.
Color(alpha, rgb) == [alpha |-> alpha, rgb |-> rgb]

(***************************************************************************)
(* The font: what the vector text engine reports for a glyph.              *)
(***************************************************************************)
Font == [cellSize |-> XY(64, 128), baseline |-> 100, descender |-> 28,
         thinLineWidth |-> 2, underlinePos |-> 110, underlineWidth |-> 2,
         doubleUnderlinePos |-> XY(106, 114), strikethroughPos |-> 60,
         strikethroughWidth |-> 2,
         ligatureOverhangTriggerLeft |-> -16, ligatureOverhangTriggerRight |-> 80]

FontFaces == {"face", "nullptr"}

Box(l, t, r, bt) == [left |-> l, top |-> t, right |-> r, bottom |-> bt]

\* The black box of a glyph at font size, relative to its baseline origin, in
\* half pixels: 32 is a space, 65..67 are letters, 769 is a diacritic that
\* sits above the letters, 8212 is a wide bar at the height of the diacritic
\* that overhangs its cell on both sides.
GlyphBlackBox(glyphIndex) ==
    CASE glyphIndex = 65 -> Box(5, -180, 125, 20)
      [] glyphIndex = 66 -> Box(4, -180, 124, 20)
      [] glyphIndex = 67 -> Box(3, -181, 123, 19)
      [] glyphIndex = 769 -> Box(40, -180, 80, -120)
      [] glyphIndex = 8212 -> Box(-40, -180, 168, -160)
      [] OTHER -> Box(0, 0, 0, 0)

ColorGlyphs == {}

\* ID2D1RenderTarget::GetGlyphRunWorldBounds at baseline origin (0, 0) under
\* the transform (m11, m22) that _drawGlyph has set.
GetGlyphRunWorldBounds(glyphIndex, m11, m22) ==
    LET g == GlyphBlackBox(glyphIndex)
    IN  Box(g.left * m11, g.top * m22, g.right * m11, g.bottom * m22)

(***************************************************************************)
(* RectPacker (stb_rect_pack): packs bottom-left, first fit.               *)
(***************************************************************************)
RectsOverlap(a, c) ==
    /\ a.x < c.x + c.w /\ c.x < a.x + a.w
    /\ a.y < c.y + c.h /\ c.y < a.y + a.h

stbrp_init_target(u, v) == [width |-> u, height |-> v, rects |-> {}]

PackCandidates(packer, w, h) ==
    LET xs == {0} \cup {r.x + r.w : r \in packer.rects}
        ys == {0} \cup {r.y + r.h : r \in packer.rects}
    IN  {c \in {[x |-> x, y |-> y, w |-> w, h |-> h] : x \in xs, y \in ys} :
            /\ c.x + w <= packer.width
            /\ c.y + h <= packer.height
            /\ \A r \in packer.rects : ~RectsOverlap(c, r)}

\* [ok, rect, packer]: rect.{w,h} are the input, rect.{x,y} are filled in on
\* success.  A rect without area needs no space.
stbrp_pack_rects(packer, w, h) ==
    IF w = 0 \/ h = 0
    THEN [ok |-> TRUE, rect |-> [x |-> 0, y |-> 0, w |-> w, h |-> h], packer |-> packer]
    ELSE LET cs == PackCandidates(packer, w, h)
         IN  IF cs = {}
             THEN [ok |-> FALSE, rect |-> [x |-> 0, y |-> 0, w |-> w, h |-> h], packer |-> packer]
             ELSE LET best == CHOOSE c \in cs :
                                 \A d \in cs : c.y < d.y \/ (c.y = d.y /\ c.x <= d.x)
                  IN  [ok |-> TRUE, rect |-> best,
                       packer |-> [packer EXCEPT !.rects = @ \cup {best}]]

(***************************************************************************)
(* GlyphCache: the outer map is keyed by {fontFace, lineRendition}; a slot *)
(* is in use while its `inner` is set; the inner map is keyed by glyph     *)
(* index.                                                                  *)
(***************************************************************************)
AtlasFontFaceKey(fontFace, lineRendition) ==
    [fontFace |-> fontFace, lineRendition |-> lineRendition]

AtlasFontFaceKeys == {AtlasFontFaceKey(f, r) : f \in FontFaces, r \in LineRenditions}

EmptySlot == [inner |-> FALSE, glyphs |-> {}]

\* A freshly inserted AtlasGlyphEntry: only the key is set.
NewGlyphEntry(glyphIndex) ==
    [glyphIndex |-> glyphIndex, shadingType |-> ShadingDefault,
     offset |-> XY(0, 0), size |-> XY(0, 0), texcoord |-> XY(0, 0)]

\* _glyphAtlasMap.insert(key): the slot of the key, created when absent.
MapInsert(map, key) ==
    IF map[key].inner THEN map ELSE [map EXCEPT ![key] = [inner |-> TRUE, glyphs |-> {}]]

\* _glyphAtlasMap.empty()
MapEmpty(map) == \A k \in DOMAIN map : ~map[k].inner

\* A lookup that never finds the entry: the fault that
\* C39_RasterizedOncePerGeneration must detect.
HasGlyphNever(map, key, glyphIndex) == FALSE

\* !inserted of glyphs.insert(glyphIndex): the key has an entry already.
HasGlyph(map, key, glyphIndex) ==
    map[key].inner /\ \E e \in map[key].glyphs : e.glyphIndex = glyphIndex

GetGlyph(map, key, glyphIndex) ==
    CHOOSE e \in map[key].glyphs : e.glyphIndex = glyphIndex

\* glyphs.insert(glyphIndex) followed by writes to the entry it returned.
PutGlyph(map, key, entry) ==
    [map EXCEPT ![key].glyphs =
        {e \in @ : e.glyphIndex # entry.glyphIndex} \cup {entry}]

LiveEntries(map) ==
    UNION {{[key |-> k, entry |-> e] : e \in map[k].glyphs} :
              k \in {kk \in DOMAIN map : map[kk].inner}}

(***************************************************************************)
(* Quads and the renderer object.                                          *)
(***************************************************************************)
NoGlyph == [y |-> -1, x |-> -1]

\* A QuadInstance; `phase` and `src` (the row and glyph position a text quad
\* was emitted for) are annotations that the renderer never reads.
Quad(shadingType, position, size, texcoord, color, phase, src) ==
    [shadingType |-> shadingType, position |-> position, size |-> size,
     texcoord |-> texcoord, color |-> color, phase |-> phase, src |-> src]

\* BackendD3D::_d2dBeginDrawing
d2dBeginDrawing(s) ==
    IF ~s.d2dBeganDrawing
    THEN [s EXCEPT !.nestedBeginDraw = @ \/ s.rtDrawing,
                   !.rtDrawing = TRUE,
                   !.d2dBeganDrawing = TRUE]
    ELSE s

\* BackendD3D::_d2dEndDrawing
d2dEndDrawing(s) ==
    IF s.d2dBeganDrawing
    THEN [s EXCEPT !.rtDrawing = FALSE, !.d2dBeganDrawing = FALSE]
    ELSE s

\* The `area` that _resetGlyphAtlas hands to the power-of-2 computation.
\* An area that forgets the atlas it has: the fault that C25_AreaAtLeast
\* must detect.
AtlasAreaOfNoGrowth(cellSize, targetSize, width, height) ==
    LET cellArea == (cellSize.x * cellSize.y)
        targetArea == (targetSize.x * targetSize.y)
        maxAreaByFont == (targetArea + targetArea \div 4)
    IN  Min(maxArea, Min(maxAreaByFont, Max(minArea, cellArea * 95)))

\* `area` of _resetGlyphAtlas for a font's cell size, a target size and the
\* size that _rectPacker has.  The u32 product width * height * 2 is at most
\* 2^31; from maxArea on every value of it gives the same area, so it is
\* not doubled beyond that.
AtlasAreaOf(cellSize, targetSize, width, height) ==
    LET cellArea == (cellSize.x * cellSize.y)
        targetArea == (targetSize.x * targetSize.y)
        minAreaByFont == (cellArea * 95)
        minAreaByGrowth == IF width * height >= maxArea THEN width * height
                           ELSE width * height * 2
        min == Max(minArea, Max(minAreaByFont, minAreaByGrowth))
        maxAreaByFont == (targetArea + targetArea \div 4)
    IN  Min(maxArea, Min(maxAreaByFont, min))

AtlasArea(s, p) ==
    AtlasAreaOf(Font.cellSize, p.targetSize, s.rectPacker.width, s.rectPacker.height)

\* The bit index that _BitScanReverse(&index, area - 1) may produce; for an
\* area of 0 the u32 `area - 1` is 0xffffffff.
AtlasBitIndexOf(area) == IF area = 0 THEN {31} ELSE BitScanReverse(area - 1)

AtlasBitIndex(s, p) == AtlasBitIndexOf(AtlasArea(s, p))

AtlasU(index) == ToU16(Pow2((index + 2) \div 2))
AtlasV(index) == ToU16(Pow2((index + 1) \div 2))

\* The loop over _glyphAtlasMap.container() of _resetGlyphAtlas.
\* A reset that leaves the slots as they are: the fault that
\* C7_ResetInvalidatesAll must detect.
ResetSlotsKeepsEntries(map) == map

ResetSlots(map) == [k \in DOMAIN map |-> EmptySlot]

\* BackendD3D::_resetGlyphAtlas; `index` is what _BitScanReverse produced.
resetGlyphAtlas(s, p, index) ==
    LET u == AtlasU(index)
        v == AtlasV(index)
        recreate == u # s.rectPacker.width \/ v # s.rectPacker.height
        s1 == [s EXCEPT !.resetWhileDrawing = @ \/ s.d2dBeganDrawing,
                        !.outerBeforeReset = {k \in DOMAIN s.glyphAtlasMap : s.glyphAtlasMap[k].inner},
                        !.justReset = TRUE,
                        !.rtDrawing = IF recreate THEN FALSE ELSE @,
                        !.atlasSize = IF recreate THEN XY(u, v) ELSE @,
                        !.rectPacker = stbrp_init_target(u, v),
                        !.glyphAtlasMap = ResetSlots(@)]
    IN  [d2dBeginDrawing(s1) EXCEPT !.fontChangedResetGlyphAtlas = FALSE]

\* BackendD3D::_markStateChange
markStateChange(s, blendState) ==
    [s EXCEPT !.instancesStateChanges =
        Append(@, [blendState |-> blendState, offset |-> Len(s.instances)])]

\* A growth by a fixed step of 256 entries instead of a doubling: the fault
\* that C26_QuadStreamGrowth must detect.
bumpInstancesSizeByStep(s) ==
    LET newSize == s.instancesSize + 256
    IN  [s EXCEPT !.instancesSize = newSize,
                  !.instances = SubSeq(@, 1, Min(Len(@), s.instancesSize))]

\* BackendD3D::_bumpInstancesSize: the new buffer holds the first
\* _instances.size() elements of the old one.
bumpInstancesSize(s) ==
    LET newSize == Max(256, s.instancesSize * 2)
    IN  [s EXCEPT !.instancesSize = newSize,
                  !.instances = SubSeq(@, 1, Min(Len(@), s.instancesSize))]

\* BackendD3D::_appendQuad followed by the assignment to the quad it returns:
\* the quad lands at the index _instancesCount had before the increment.
appendQuad(s, q) ==
    LET s1 == IF Len(s.instances) >= s.instancesSize THEN bumpInstancesSize(s) ELSE s
    IN  [s1 EXCEPT !.instances = Append(@, q), !.appended = @ + 1]

\* The arguments of one ID3D11DeviceContext::DrawIndexedInstanced.
DrawCall(indexCount, instanceCount, startIndex, baseVertex, startInstance) ==
    [indexCountPerInstance |-> indexCount, instanceCount |-> instanceCount,
     startIndexLocation |-> startIndex, baseVertexLocation |-> baseVertex,
     startInstanceLocation |-> startInstance]

\* One DrawIndexedInstanced(6, count, 0, 0, previousOffset): the quads it
\* draws, with the blend state and the atlas texture they are drawn with.
DrawIndexedInstanced(s, count, previousOffset) ==
    [s EXCEPT !.drawn = @ \o [i \in 1 .. count |->
                                [quad |-> s.instances[previousOffset + i],
                                 blendState |-> s.blendState,
                                 atlasSize |-> s.atlasSize,
                                 colorBitmapGenerations |-> s.colorBitmapGenerations]],
              !.drawCalls = Append(@, DrawCall(6, count, 0, 0, previousOffset)),
              !.flushWhileDrawing = @ \/ s.d2dBeganDrawing \/ s.rtDrawing]

\* A loop that issues a draw call for a span without quads as well: the
\* fault that C17_FlushSpans must detect.
RECURSIVE FlushLoopDrawsEmptySpans(_, _, _)
FlushLoopDrawsEmptySpans(s, i, previousOffset) ==
    IF i > Len(s.instancesStateChanges) THEN s
    ELSE LET state == s.instancesStateChanges[i]
             s1 == DrawIndexedInstanced(s, state.offset - previousOffset, previousOffset)
             s2 == IF state.blendState # "nullptr"
                   THEN [s1 EXCEPT !.blendState = state.blendState]
                   ELSE s1
         IN  FlushLoopDrawsEmptySpans(s2, i + 1, state.offset)

\* The loop over _instancesStateChanges of _flushQuads.
RECURSIVE FlushLoop(_, _, _)
FlushLoop(s, i, previousOffset) ==
    IF i > Len(s.instancesStateChanges) THEN s
    ELSE LET state == s.instancesStateChanges[i]
             count == state.offset - previousOffset
             s1 == IF count # 0 THEN DrawIndexedInstanced(s, count, previousOffset) ELSE s
             s2 == IF state.blendState # "nullptr"
                   THEN [s1 EXCEPT !.blendState = state.blendState]
                   ELSE s1
         IN  FlushLoop(s2, i + 1, state.offset)

\* _colorBitmapGenerations = {}: the generations of a bitmap that nothing
\* has been uploaded to.
NoGeneration == 0

\* BackendD3D::_uploadColorBitmap: both halves are copied, or none.
uploadColorBitmap(s, p) ==
    IF /\ s.colorBitmapGenerations[1] = p.colorBitmapGenerations[1]
       /\ (s.colorBitmapGenerations[2] = p.colorBitmapGenerations[2]
              \/ s.skipForegroundBitmapUpload)
    THEN s
    ELSE [s EXCEPT !.colorBitmapGenerations = p.colorBitmapGenerations,
                   !.colorBitmapUploads = @ + 1]

\* A flush that does not set _instancesCount back to 0: the fault that
\* C5_PhaseOrder must detect.
flushQuadsKeepsInstances(s, p) ==
    IF Len(s.instances) = 0 THEN s
    ELSE LET s1 == FlushLoop(markStateChange(s, "nullptr"), 1, 0)
         IN  [s1 EXCEPT !.instancesStateChanges = <<>>]

\* An instance buffer of exactly the bytes asked for, not rounded up: the
\* fault that C27_InstanceBufferCapacity must detect.
recreateInstanceBuffersUnrounded(s, p) ==
    LET minCapacity == p.cellCount.x * p.cellCount.y
        newCapacity == Max(Len(s.instances), minCapacity)
        newSize == newCapacity * SizeofQuadInstance
    IN  [s EXCEPT !.instanceBufferByteWidth = newSize,
                  !.instanceBufferCapacity = newSize \div SizeofQuadInstance,
                  !.recreatedFor = [count |-> Len(s.instances), minCapacity |-> minCapacity]]

\* BackendD3D::_recreateInstanceBuffers
recreateInstanceBuffers(s, p) ==
    LET minCapacity == p.cellCount.x * p.cellCount.y
        newCapacity == Max(Len(s.instances), minCapacity)
        newSize == ((newCapacity * SizeofQuadInstance + 65535) \div 65536) * 65536
    IN  [s EXCEPT !.instanceBufferByteWidth = newSize,
                  !.instanceBufferCapacity = newSize \div SizeofQuadInstance,
                  !.recreatedFor = [count |-> Len(s.instances), minCapacity |-> minCapacity]]

\* BackendD3D::_flushQuads; `uploaded` records the memcpy into the mapped
\* instance buffer.
flushQuads(s, p) ==
    IF Len(s.instances) = 0 THEN s
    ELSE LET su == uploadColorBitmap(s, p)
             s0 == IF Len(su.instances) > su.instanceBufferCapacity
                   THEN recreateInstanceBuffers(su, p)
                   ELSE su
             s1 == [s0 EXCEPT !.uploaded = [count |-> Len(s0.instances),
                                            capacity |-> s0.instanceBufferCapacity]]
             s2 == FlushLoop(markStateChange(s1, "nullptr"), 1, 0)
         IN  [s2 EXCEPT !.instancesStateChanges = <<>>, !.instances = <<>>]

\* A post-process pass that leaves the output merger as its own draw needs
\* it: the fault that C35_InvertOnlyForCursor must detect.
executeCustomShaderNoRestore(s) ==
    [s EXCEPT !.blendState = "nullptr", !.postProcessed = TRUE]

\* BackendD3D::_executeCustomShader: OMSetBlendState(nullptr) for its
\* Draw(4, 0), then OMSetBlendState(_blendState) for the next frame's quads.
executeCustomShader(s) ==
    LET s1 == [s EXCEPT !.blendState = "nullptr"]
        s2 == [s1 EXCEPT !.postProcessed = TRUE]
    IN  [s2 EXCEPT !.blendState = "blendState"]

\* A retry that resets without flushing the pending quads first: the fault
\* that C4_PackFullRetriesGlyph must detect.
drawGlyphPrepareRetryNoFlush(s, p, index) ==
    IF MapEmpty(s.glyphAtlasMap)
    THEN [s EXCEPT !.thrown = TRUE]
    ELSE LET s1 == [s EXCEPT !.resetOnEmptyAtlas = @ \/ (s.rectPacker.rects = {}),
                             !.resetsInRun = Min(@ + 1, MaxResetsCounted),
                             !.maxResetsInRun = Max(@, Min(s.resetsInRun + 1, MaxResetsCounted)),
                             !.resetsInFrame = Min(@ + 1, MaxResetsCounted)]
         IN  resetGlyphAtlas(d2dEndDrawing(s1), p, index)

\* A retry that flushes and resets without ending the drawing first: the
\* fault that C6_DrawingGuard must detect.
drawGlyphPrepareRetryNoEndDraw(s, p, index) ==
    IF MapEmpty(s.glyphAtlasMap)
    THEN [s EXCEPT !.thrown = TRUE]
    ELSE LET s1 == [s EXCEPT !.resetOnEmptyAtlas = @ \/ (s.rectPacker.rects = {}),
                             !.resetsInRun = Min(@ + 1, MaxResetsCounted),
                             !.maxResetsInRun = Max(@, Min(s.resetsInRun + 1, MaxResetsCounted)),
                             !.resetsInFrame = Min(@ + 1, MaxResetsCounted)]
         IN  resetGlyphAtlas(flushQuads(s1, p), p, index)

\* BackendD3D::_drawGlyphPrepareRetry; the deadlock error leaves `thrown` set.
drawGlyphPrepareRetry(s, p, index) ==
    IF MapEmpty(s.glyphAtlasMap)
    THEN [s EXCEPT !.thrown = TRUE]
    ELSE LET s1 == [s EXCEPT !.resetOnEmptyAtlas = @ \/ (s.rectPacker.rects = {}),
                             !.resetsInRun = Min(@ + 1, MaxResetsCounted),
                             !.maxResetsInRun = Max(@, Min(s.resetsInRun + 1, MaxResetsCounted)),
                             !.resetsInFrame = Min(@ + 1, MaxResetsCounted)]
         IN  resetGlyphAtlas(flushQuads(d2dEndDrawing(s1), p), p, index)

\* A split that leaves the top half where the whole glyph was placed,
\* one row too high: the fault that C11_HalvesReconstruct must detect.
splitDoubleHeightGlyphTopUnshifted(s, key, written) ==
    LET glyphEntry == [written EXCEPT !.offset.y = @ - Font.descender]
        isTop == key.lineRendition = "DoubleHeightTop"
        key2 == AtlasFontFaceKey(key.fontFace,
                    IF isTop THEN "DoubleHeightBottom" ELSE "DoubleHeightTop")
        map1 == MapInsert(s.glyphAtlasMap, key2)
        topSize == clamp(-glyphEntry.offset.y - Font.baseline, 0, glyphEntry.size.y)
        top0 == [glyphEntry EXCEPT !.size.y = topSize]
        bottom0 == [glyphEntry EXCEPT !.offset.y = @ + topSize,
                                      !.size.y = Max(0, @ - topSize),
                                      !.texcoord.y = @ + topSize]
        top == IF top0.size.y = 0 THEN [top0 EXCEPT !.shadingType = ShadingDefault] ELSE top0
        bottom == IF bottom0.size.y = 0
                  THEN [bottom0 EXCEPT !.shadingType = ShadingDefault] ELSE bottom0
        map2 == PutGlyph(map1, key, IF isTop THEN top ELSE bottom)
    IN  [s EXCEPT !.glyphAtlasMap = PutGlyph(map2, key2, IF isTop THEN bottom ELSE top)]

\* A split that measures the top half before the descender is taken off the
\* offset: the fault that C12_TopHeightAfterDescender must detect.
splitDoubleHeightGlyphEarlyTopSize(s, key, written) ==
    LET glyphEntry == [written EXCEPT !.offset.y = @ - Font.descender]
        isTop == key.lineRendition = "DoubleHeightTop"
        key2 == AtlasFontFaceKey(key.fontFace,
                    IF isTop THEN "DoubleHeightBottom" ELSE "DoubleHeightTop")
        map1 == MapInsert(s.glyphAtlasMap, key2)
        topSize == clamp(-written.offset.y - Font.baseline, 0, glyphEntry.size.y)
        top0 == [glyphEntry EXCEPT !.offset.y = @ + Font.cellSize.y, !.size.y = topSize]
        bottom0 == [glyphEntry EXCEPT !.offset.y = @ + topSize,
                                      !.size.y = Max(0, @ - topSize),
                                      !.texcoord.y = @ + topSize]
        top == IF top0.size.y = 0 THEN [top0 EXCEPT !.shadingType = ShadingDefault] ELSE top0
        bottom == IF bottom0.size.y = 0
                  THEN [bottom0 EXCEPT !.shadingType = ShadingDefault] ELSE bottom0
        map2 == PutGlyph(map1, key, IF isTop THEN top ELSE bottom)
    IN  [s EXCEPT !.glyphAtlasMap = PutGlyph(map2, key2, IF isTop THEN bottom ELSE top)]

\* A split that leaves the bottom half its full height: the fault that
\* C8_TexcoordWithinAtlas must detect.
splitDoubleHeightGlyphFullBottom(s, key, written) ==
    LET glyphEntry == [written EXCEPT !.offset.y = @ - Font.descender]
        isTop == key.lineRendition = "DoubleHeightTop"
        key2 == AtlasFontFaceKey(key.fontFace,
                    IF isTop THEN "DoubleHeightBottom" ELSE "DoubleHeightTop")
        map1 == MapInsert(s.glyphAtlasMap, key2)
        topSize == clamp(-glyphEntry.offset.y - Font.baseline, 0, glyphEntry.size.y)
        top == [glyphEntry EXCEPT !.offset.y = @ + Font.cellSize.y, !.size.y = topSize]
        bottom == [glyphEntry EXCEPT !.offset.y = @ + topSize, !.texcoord.y = @ + topSize]
        map2 == PutGlyph(map1, key, IF isTop THEN top ELSE bottom)
    IN  [s EXCEPT !.glyphAtlasMap = PutGlyph(map2, key2, IF isTop THEN bottom ELSE top)]

\* A split that leaves the bottom half at the texcoord of the whole glyph:
\* the fault that C9_LiveRectsDisjoint must detect.
splitDoubleHeightGlyphSameTexcoord(s, key, written) ==
    LET glyphEntry == [written EXCEPT !.offset.y = @ - Font.descender]
        isTop == key.lineRendition = "DoubleHeightTop"
        key2 == AtlasFontFaceKey(key.fontFace,
                    IF isTop THEN "DoubleHeightBottom" ELSE "DoubleHeightTop")
        map1 == MapInsert(s.glyphAtlasMap, key2)
        topSize == clamp(-glyphEntry.offset.y - Font.baseline, 0, glyphEntry.size.y)
        top == [glyphEntry EXCEPT !.offset.y = @ + Font.cellSize.y, !.size.y = topSize]
        bottom == [glyphEntry EXCEPT !.offset.y = @ + topSize,
                                     !.size.y = Max(0, @ - topSize)]
        map2 == PutGlyph(map1, key, IF isTop THEN top ELSE bottom)
    IN  [s EXCEPT !.glyphAtlasMap = PutGlyph(map2, key2, IF isTop THEN bottom ELSE top)]

\* BackendD3D::_splitDoubleHeightGlyph: the map with both halves stored.
splitDoubleHeightGlyph(s, key, written) ==
    LET glyphEntry == [written EXCEPT !.offset.y = @ - Font.descender]
        isTop == key.lineRendition = "DoubleHeightTop"
        key2 == AtlasFontFaceKey(key.fontFace,
                    IF isTop THEN "DoubleHeightBottom" ELSE "DoubleHeightTop")
        map1 == MapInsert(s.glyphAtlasMap, key2)
        topSize == clamp(-glyphEntry.offset.y - Font.baseline, 0, glyphEntry.size.y)
        top0 == [glyphEntry EXCEPT !.offset.y = @ + Font.cellSize.y, !.size.y = topSize]
        bottom0 == [glyphEntry EXCEPT !.offset.y = @ + topSize,
                                      !.size.y = Max(0, @ - topSize),
                                      !.texcoord.y = @ + topSize]
        top == IF top0.size.y = 0 THEN [top0 EXCEPT !.shadingType = ShadingDefault] ELSE top0
        bottom == IF bottom0.size.y = 0
                  THEN [bottom0 EXCEPT !.shadingType = ShadingDefault] ELSE bottom0
        map2 == PutGlyph(map1, key, IF isTop THEN top ELSE bottom)
    IN  [s EXCEPT !.glyphAtlasMap = PutGlyph(map2, key2, IF isTop THEN bottom ELSE top)]

\* A ligature test that looks at the left overhang only: the fault that
\* C14_LigatureMarkerOfDrawnGlyphs must detect.
IsLigatureLeftOnly(w, bl, br) ==
    w >= Font.cellSize.x /\ bl <= Font.ligatureOverhangTriggerLeft

\* The ligature test of _drawGlyph.
IsLigature(w, bl, br) ==
    /\ w >= Font.cellSize.x
    /\ (bl <= Font.ligatureOverhangTriggerLeft \/ br >= Font.ligatureOverhangTriggerRight)

\* BackendD3D::_drawSoftFontGlyph: [ok, s].
drawSoftFontGlyph(s, p, key, glyphIndex, index) ==
    LET doubled == key.lineRendition # "SingleWidth"
        w == IF doubled THEN Font.cellSize.x * 2 ELSE Font.cellSize.x
        h == IF doubled /\ IsDoubleHeight(key.lineRendition)
             THEN Font.cellSize.y * 2 ELSE Font.cellSize.y
        packed == stbrp_pack_rects(s.rectPacker, w, h)
        rect == packed.rect
        entry == [glyphIndex |-> glyphIndex,
                  shadingType |-> ShadingType("TextGrayscale", FALSE),
                  offset |-> XY(0, -Font.baseline),
                  size |-> XY(rect.w, rect.h),
                  texcoord |-> XY(rect.x, rect.y)]
        s1 == d2dBeginDrawing([s EXCEPT !.rectPacker = packed.packer])
    IN  IF ~packed.ok
        THEN [ok |-> FALSE, s |-> drawGlyphPrepareRetry(s, p, index)]
        ELSE IF IsDoubleHeight(key.lineRendition)
        THEN [ok |-> TRUE,
              s |-> splitDoubleHeightGlyph(s1, key,
                        [entry EXCEPT !.offset.y = @ - Font.cellSize.y])]
        ELSE [ok |-> TRUE,
              s |-> [s1 EXCEPT !.glyphAtlasMap = PutGlyph(@, key, entry)]]

\* A _drawGlyph that splits the glyph of every row that is not SingleWidth,
\* a DoubleWidth row included: the fault that C13_OnlyDoubleHeightSplits
\* must detect.
drawGlyphSplitsDoubleWidth(s, p, key, glyphIndex, index) ==
    IF key.fontFace = "nullptr" THEN drawSoftFontGlyph(s, p, key, glyphIndex, index)
    ELSE
    LET m11 == IF key.lineRendition # "SingleWidth" THEN 2 ELSE 1
        m22 == IF IsDoubleHeight(key.lineRendition) THEN 2 ELSE 1
        box == GetGlyphRunWorldBounds(glyphIndex, m11, m22)
        bl == lrintf(box.left)
        bt == lrintf(box.top)
        br == lrintf(box.right)
        bb == lrintf(box.bottom)
        packed == stbrp_pack_rects(s.rectPacker, br - bl, bb - bt)
        rect == packed.rect
        base == IF glyphIndex \in ColorGlyphs
                THEN ShadingType("Passthrough", FALSE) ELSE s.textShadingType
        shadingType == IF IsLigature(rect.w, bl, br)
                       THEN [base EXCEPT !.ligatureMarker = TRUE] ELSE base
        entry == [glyphIndex |-> glyphIndex, shadingType |-> shadingType,
                  offset |-> XY(bl, bt), size |-> XY(rect.w, rect.h),
                  texcoord |-> XY(rect.x, rect.y)]
        s1 == d2dBeginDrawing([s EXCEPT !.rectPacker = packed.packer])
    IN  IF box.left >= box.right \/ box.top >= box.bottom
        THEN [ok |-> TRUE, s |-> s]
        ELSE IF ~packed.ok
        THEN [ok |-> FALSE, s |-> drawGlyphPrepareRetry(s, p, index)]
        ELSE IF key.lineRendition # "SingleWidth"
        THEN [ok |-> TRUE, s |-> splitDoubleHeightGlyph(s1, key, entry)]
        ELSE [ok |-> TRUE, s |-> [s1 EXCEPT !.glyphAtlasMap = PutGlyph(@, key, entry)]]

\* BackendD3D::_drawGlyph for the entry that _drawText has just inserted:
\* [ok, s].
drawGlyph(s, p, key, glyphIndex, index) ==
    IF key.fontFace = "nullptr" THEN drawSoftFontGlyph(s, p, key, glyphIndex, index)
    ELSE
    LET m11 == IF key.lineRendition # "SingleWidth" THEN 2 ELSE 1
        m22 == IF IsDoubleHeight(key.lineRendition) THEN 2 ELSE 1
        box == GetGlyphRunWorldBounds(glyphIndex, m11, m22)
        bl == lrintf(box.left)
        bt == lrintf(box.top)
        br == lrintf(box.right)
        bb == lrintf(box.bottom)
        packed == stbrp_pack_rects(s.rectPacker, br - bl, bb - bt)
        rect == packed.rect
        base == IF glyphIndex \in ColorGlyphs
                THEN ShadingType("Passthrough", FALSE) ELSE s.textShadingType
        shadingType == IF IsLigature(rect.w, bl, br)
                       THEN [base EXCEPT !.ligatureMarker = TRUE] ELSE base
        entry == [glyphIndex |-> glyphIndex, shadingType |-> shadingType,
                  offset |-> XY(bl, bt), size |-> XY(rect.w, rect.h),
                  texcoord |-> XY(rect.x, rect.y)]
        s1 == d2dBeginDrawing([s EXCEPT !.rectPacker = packed.packer])
    IN  IF box.left >= box.right \/ box.top >= box.bottom
        THEN [ok |-> TRUE, s |-> s]
        ELSE IF ~packed.ok
        THEN [ok |-> FALSE, s |-> drawGlyphPrepareRetry(s, p, index)]
        ELSE IF IsDoubleHeight(key.lineRendition)
        THEN [ok |-> TRUE, s |-> splitDoubleHeightGlyph(s1, key, entry)]
        ELSE [ok |-> TRUE, s |-> [s1 EXCEPT !.glyphAtlasMap = PutGlyph(@, key, entry)]]

(***************************************************************************)
(* Decorations.                                                            *)
(***************************************************************************)
\* BackendD3D::_drawBackground
drawBackground(s, p) ==
    appendQuad(s, Quad(ShadingBackground, XY(0, 0), p.targetSize, XY(0, 0), Color(0, 0),
                       "background", NoGlyph))

SolidFill(position, size, color, phase) ==
    Quad(ShadingSolidFill, position, size, XY(0, 0), color, phase, NoGlyph)

RECURSIVE AppendAll(_, _, _)
AppendAll(s, quads, i) ==
    IF i > Len(quads) THEN s ELSE AppendAll(appendQuad(s, quads[i]), quads, i + 1)

\* p.colorBitmap[offset + x] | 0xff000000
OpaqueBackground(p, x) ==
    Color(255, p.colorBitmap[p.cursorRect.top * p.colorBitmapRowStride + x + 1].rgb)

\* color == 0xffffffff
IsAutoColor(color) == color.alpha = 255 /\ color.rgb = 16777215

\* bg ^ 0x3f3f3f on the rgb bytes 0x00 / 0x3f / 0xc0 / 0xff that the model uses.
XorByte(v) == CASE v = 0 -> 63 [] v = 63 -> 0 [] v = 255 -> 192 [] v = 192 -> 255 [] OTHER -> v
Xor3f3f3f(c) ==
    [c EXCEPT !.rgb = XorByte(c.rgb \div 65536) * 65536
                      + XorByte((c.rgb \div 256) % 256) * 256 + XorByte(c.rgb % 256)]

\* The end of the run of cells that starts at x1 and shares the background bg.
RECURSIVE CursorRunEnd(_, _, _)
CursorRunEnd(p, x1, bg) ==
    IF x1 < p.cursorRect.right /\ OpaqueBackground(p, x1) = bg
    THEN CursorRunEnd(p, x1 + 1, bg) ELSE x1

CursorRect(position, size, color) == [position |-> position, size |-> size, color |-> color]

\* The rectangles that the switch over cursorType makes of the run [x0, x1).
CursorRunRects(p, x0, x1, color) ==
    LET thin == Font.thinLineWidth
        c0 == CursorRect(XY(ToI16(Font.cellSize.x * x0), ToI16(Font.cellSize.y * p.cursorRect.top)),
                         XY(ToU16(Font.cellSize.x * (x1 - x0)), Font.cellSize.y), color)
        height == (c0.size.y * p.heightPercentage + 50) \div 100
        vertical == [c0 EXCEPT !.position.y = @ + thin, !.size.y = @ - 2 * thin]
        leftEdge == IF x0 = p.cursorRect.left
                    THEN <<[vertical EXCEPT !.size.x = thin]>> ELSE <<>>
        rightEdge == IF x1 = p.cursorRect.right
                     THEN <<[vertical EXCEPT !.position.x = @ + vertical.size.x - thin,
                                             !.size.x = thin]>>
                     ELSE <<>>
    IN  CASE p.cursorType = "Legacy" ->
                <<[c0 EXCEPT !.position.y = @ + c0.size.y - height, !.size.y = height]>>
          [] p.cursorType = "VerticalBar" -> <<[c0 EXCEPT !.size.x = thin]>>
          [] p.cursorType = "Underscore" ->
                <<[c0 EXCEPT !.position.y = @ + Font.underlinePos,
                             !.size.y = Font.underlineWidth]>>
          [] p.cursorType = "EmptyBox" ->
                <<[c0 EXCEPT !.size.y = thin],
                  [c0 EXCEPT !.position.y = @ + c0.size.y - thin, !.size.y = thin]>>
                \o leftEdge \o rightEdge
          [] p.cursorType = "DoubleUnderscore" ->
                <<[c0 EXCEPT !.position.y = @ + Font.doubleUnderlinePos.x, !.size.y = thin],
                  [c0 EXCEPT !.position.y = @ + Font.doubleUnderlinePos.y, !.size.y = thin]>>
          [] OTHER -> <<c0>>

\* The outer loop of _drawCursorPart1: after a run has ended at x1 the
\* loop's own ++x1 runs before the next run starts.
RECURSIVE CursorLoop(_, _)
CursorLoop(p, x1) ==
    IF x1 >= p.cursorRect.right THEN <<>>
    ELSE LET bg == OpaqueBackground(p, x1)
             end == CursorRunEnd(p, x1, bg)
             color == IF IsAutoColor(p.cursorColor) THEN Xor3f3f3f(bg) ELSE p.cursorColor
         IN  CursorRunRects(p, x1, end, color) \o CursorLoop(p, end + 1)

CursorRectEmpty(r) == r.left >= r.right \/ r.top >= r.bottom

\* A Part 1 that returns for an empty cursor before it clears _cursorRects:
\* the fault that C20_Part2EmitsPart1Rects must detect.
drawCursorPart1KeepsRects(s, p) ==
    IF CursorRectEmpty(p.cursorRect) THEN s
    ELSE LET rects == CursorLoop(p, p.cursorRect.left)
         IN  IF IsAutoColor(p.cursorColor)
             THEN [AppendAll(s, [i \in 1 .. Len(rects) |->
                                    SolidFill(rects[i].position, rects[i].size,
                                              rects[i].color, "cursor1")], 1)
                      EXCEPT !.cursorRects =
                          [i \in 1 .. Len(rects) |-> [rects[i] EXCEPT !.color = p.cursorColor]]]
             ELSE [s EXCEPT !.cursorRects = rects]

\* BackendD3D::_drawCursorPart1
drawCursorPart1(s, p) ==
    IF CursorRectEmpty(p.cursorRect) THEN [s EXCEPT !.cursorRects = <<>>]
    ELSE LET rects == CursorLoop(p, p.cursorRect.left)
         IN  IF IsAutoColor(p.cursorColor)
             THEN [AppendAll(s, [i \in 1 .. Len(rects) |->
                                    SolidFill(rects[i].position, rects[i].size,
                                              rects[i].color, "cursor1")], 1)
                      EXCEPT !.cursorRects =
                          [i \in 1 .. Len(rects) |-> [rects[i] EXCEPT !.color = p.cursorColor]]]
             ELSE [s EXCEPT !.cursorRects = rects]

\* A Part 2 that inverts and never restores the standard blend state: the
\* fault that C18_CursorMarkers must detect.
drawCursorPart2NoRestore(s, p) ==
    IF Len(s.cursorRects) = 0 THEN s
    ELSE LET auto == IsAutoColor(p.cursorColor)
             s1 == IF auto THEN markStateChange(s, "blendStateInvert") ELSE s
         IN  AppendAll(s1, [i \in 1 .. Len(s.cursorRects) |->
                               SolidFill(s.cursorRects[i].position, s.cursorRects[i].size,
                                         s.cursorRects[i].color, "cursor2")], 1)

\* BackendD3D::_drawCursorPart2
drawCursorPart2(s, p) ==
    IF Len(s.cursorRects) = 0 THEN s
    ELSE LET auto == IsAutoColor(p.cursorColor)
             s1 == IF auto THEN markStateChange(s, "blendStateInvert") ELSE s
             s2 == AppendAll(s1, [i \in 1 .. Len(s.cursorRects) |->
                                     SolidFill(s.cursorRects[i].position, s.cursorRects[i].size,
                                               s.cursorRects[i].color, "cursor2")], 1)
         IN  IF auto THEN markStateChange(s2, "blendState") ELSE s2

\* The quads of one gridline range of _drawGridlineRow, in emission order.
GridlineRangeQuads(r, y) ==
    LET top == ToI16(Font.cellSize.y * y)
        left == ToI16(r.from * Font.cellSize.x)
        width == ToU16((r.to - r.from) * Font.cellSize.x)
        horizontal(offsetY, height) ==
            <<SolidFill(XY(left, ToI16(top + offsetY)), XY(width, height), r.color, "gridlines")>>
        vertical(col) ==
            SolidFill(XY(ToI16(col * Font.cellSize.x), top),
                      XY(Font.thinLineWidth, Font.cellSize.y), r.color, "gridlines")
        n == r.to - r.from
        when(kind, quads) == IF kind \in r.lines THEN quads ELSE <<>>
    IN  when("Left", [i \in 1 .. n |-> vertical(r.from + i - 1)])
        \o when("Top", horizontal(0, Font.thinLineWidth))
        \o when("Right", [i \in 1 .. n |-> vertical(r.to - i + 1)])
        \o when("Bottom", horizontal(Font.cellSize.y - Font.thinLineWidth, Font.thinLineWidth))
        \o when("Underline", horizontal(Font.underlinePos, Font.underlineWidth))
        \o when("HyperlinkUnderline", horizontal(Font.underlinePos, Font.underlineWidth))
        \o when("DoubleUnderline",
                horizontal(Font.doubleUnderlinePos.x, Font.thinLineWidth)
                \o horizontal(Font.doubleUnderlinePos.y, Font.thinLineWidth))
        \o when("Strikethrough", horizontal(Font.strikethroughPos, Font.strikethroughWidth))

RECURSIVE GridlineRowQuads(_, _, _)
GridlineRowQuads(ranges, i, y) ==
    IF i > Len(ranges) THEN <<>>
    ELSE GridlineRangeQuads(ranges[i], y) \o GridlineRowQuads(ranges, i + 1, y)

\* BackendD3D::_drawGridlines; y counts the rows from 0.
RECURSIVE drawGridlines(_, _, _)
drawGridlines(s, p, y) ==
    IF y >= Len(p.rows) THEN s
    ELSE drawGridlines(AppendAll(s, GridlineRowQuads(p.rows[y + 1].gridLineRanges, 1, y), 1),
                       p, y + 1)

\* BackendD3D::_drawSelection from row y on, with its locals lastFrom/lastTo.
RECURSIVE drawSelection(_, _, _, _, _)
drawSelection(s, p, y, lastFrom, lastTo) ==
    IF y >= Len(p.rows) THEN s
    ELSE LET row == p.rows[y + 1]
             n == Len(s.instances)
         IN  IF row.selectionTo > row.selectionFrom
             THEN IF row.selectionFrom = lastFrom /\ row.selectionTo = lastTo
                  THEN drawSelection(
                           [s EXCEPT !.instances[n].size.y = ToU16(@ + Font.cellSize.y)],
                           p, y + 1, lastFrom, lastTo)
                  ELSE drawSelection(
                           appendQuad(s, SolidFill(
                               XY(ToI16(Font.cellSize.x * row.selectionFrom),
                                  ToI16(Font.cellSize.y * y)),
                               XY(ToU16(Font.cellSize.x * (row.selectionTo - row.selectionFrom)),
                                  Font.cellSize.y),
                               p.selectionColor, "selection")),
                           p, y + 1, row.selectionFrom, row.selectionTo)
             ELSE drawSelection(s, p, y + 1, lastFrom, lastTo)

(***************************************************************************)
(* Settings.                                                               *)
(***************************************************************************)
\* BackendD3D::_updateFontDependents
updateFontDependents(s, p) ==
    [s EXCEPT !.fontChangedResetGlyphAtlas = TRUE,
              !.fontDependentsUpdates = @ + 1,
              !.textShadingType =
                  IF p.antialiasingMode = "ClearType"
                  THEN ShadingType("TextClearType", FALSE)
                  ELSE ShadingType("TextGrayscale", FALSE)]

\* What a render target view refers to: nothing (a null com_ptr), the back
\* buffer of the swap chain, or the n-th offscreen texture that
\* _recreateCustomRenderTargetView has created, OffscreenTexture(n).
NoView == 0

BackBuffer == 1

OffscreenTexture(n) == BackBuffer + n

\* SwapChainManager::UpdateSwapChainSettings: the swap chain is created by
\* the first call and resized when the target size has changed, and the
\* callback that precedes either drops both render target views.
SwapChainChanges(s, p) == s.targetSize # p.targetSize

UpdateSwapChainSettings(s, p) ==
    IF SwapChainChanges(s, p)
    THEN [s EXCEPT !.renderTargetView = NoView, !.customRenderTargetView = NoView]
    ELSE s

\* if (!_renderTargetView) { ... CreateRenderTargetView(buffer.get(), ...) }
CreateRenderTargetView(s) ==
    IF s.renderTargetView = NoView THEN [s EXCEPT !.renderTargetView = BackBuffer] ELSE s

\* What _recreateCustomShader releases before it looks at the settings.
ReleaseCustomTargets(s) ==
    [s EXCEPT !.customRenderTargetView = NoView, !.customOffscreenTexture = NoView]

\* BackendD3D::_recreateCustomRenderTargetView: the view that was the
\* render target becomes the target of the post-process pass, and the main
\* pass gets a new offscreen texture.
recreateCustomRenderTargetView(s) ==
    [s EXCEPT !.customRenderTargetView = s.renderTargetView,
              !.offscreenTextures = @ + 1,
              !.customOffscreenTexture = OffscreenTexture(s.offscreenTextures + 1),
              !.renderTargetView = OffscreenTexture(s.offscreenTextures + 1)]

\* SUCCEEDED(D3DCompileFromFile(path, ...)): the shader files are what they
\* are on disk, and the one named "broken.hlsl" does not compile.
D3DCompileFromFile(path) == path # "broken.hlsl"

\* What the reflection of a compiled shader says about the first variable of
\* its first constant buffer (the time): "used" or "unused" from
\* WI_IsFlagSet(uFlags, D3D_SVF_USED), and "unknown" when D3DReflect, the
\* constant buffer, the variable or GetDesc is not to be had. The shader
\* files are what they are on disk: "static.hlsl" never reads the time and
\* "opaque.hlsl" has no constant buffer.
ReflectTime(path) ==
    CASE path = "static.hlsl" -> "unused"
      [] path = "opaque.hlsl" -> "unknown"
      [] OTHER -> "used"

\* _recreateCustomShader with a compiler whose result is not looked at.
recreateCustomShaderIgnoresResult(s, p) ==
    [ReleaseCustomTargets(s) EXCEPT !.customShaderRecreations = @ + 1,
              !.customPixelShader =
                  p.customPixelShaderPath # "" \/ p.useRetroTerminalEffect,
              !.requiresContinuousRedraw = p.customPixelShaderPath # "",
              !.compileFailed = p.customPixelShaderPath # ""
                                    /\ ~D3DCompileFromFile(p.customPixelShaderPath)]

\* BackendD3D::_recreateCustomShader, as far as Render depends on it: whether
\* a custom pixel shader is installed. `compileFailed` and `warnings`
\* observe the failed compilation and the calls of p.warningCallback.
recreateCustomShader(s, p) ==
    LET s0 == [ReleaseCustomTargets(s) EXCEPT !.customShaderRecreations = @ + 1]
    IN  IF p.customPixelShaderPath # ""
        THEN IF D3DCompileFromFile(p.customPixelShaderPath)
             THEN [s0 EXCEPT !.customPixelShader = TRUE,
                             !.requiresContinuousRedraw =
                                 ReflectTime(p.customPixelShaderPath) # "unused"]
             ELSE [s0 EXCEPT !.customPixelShader = FALSE, !.requiresContinuousRedraw = TRUE,
                             !.compileFailed = TRUE,
                             !.warnings = IF p.warningCallback THEN @ + 1 ELSE @]
        ELSE [s0 EXCEPT !.customPixelShader = p.useRetroTerminalEffect,
                        !.requiresContinuousRedraw = FALSE]

\* BackendD3D::_recreateColorBitmap: a texture of cellCount.x by
\* 2 * cellCount.y texels.
recreateColorBitmap(s, cellCount) ==
    [s EXCEPT !.colorBitmapSize = XY(cellCount.x, cellCount.y * 2),
              !.colorBitmapGenerations = <<NoGeneration, NoGeneration>>,
              !.colorBitmapRecreations = @ + 1]

\* if (_customPixelShader && !_customRenderTargetView)
\*     _recreateCustomRenderTargetView(p.s->targetSize);
CustomTargetOf(s) ==
    IF s.customPixelShader /\ s.customRenderTargetView = NoView
    THEN recreateCustomRenderTargetView(s)
    ELSE s

\* A settings sync that rebuilds everything whenever the generation differs.
handleSettingsUpdateRebuildsAll(s, p) ==
    [CustomTargetOf(recreateColorBitmap(
         recreateCustomShader(
             updateFontDependents(CreateRenderTargetView(UpdateSwapChainSettings(s, p)), p),
             p), p.cellCount))
        EXCEPT !.blendState = "blendState",
               !.generation = p.generation,
               !.fontGeneration = p.fontGeneration,
               !.miscGeneration = p.miscGeneration,
               !.targetSize = p.targetSize,
               !.cellCount = p.cellCount]

\* BackendD3D::_handleSettingsUpdate
handleSettingsUpdate(s, p) ==
    LET s0 == CreateRenderTargetView(UpdateSwapChainSettings(s, p))
        fontChanged == s.fontGeneration # p.fontGeneration
        miscChanged == s.miscGeneration # p.miscGeneration
        s1 == IF fontChanged THEN updateFontDependents(s0, p) ELSE s0
        cellCountChanged == s.cellCount # p.cellCount
        s2 == IF miscChanged THEN recreateCustomShader(s1, p) ELSE s1
        s3 == CustomTargetOf(IF cellCountChanged THEN recreateColorBitmap(s2, p.cellCount)
                             ELSE s2)
    IN  [s3 EXCEPT !.blendState = "blendState",
                   !.generation = p.generation,
                   !.fontGeneration = p.fontGeneration,
                   !.miscGeneration = p.miscGeneration,
                   !.targetSize = p.targetSize,
                   !.cellCount = p.cellCount]

(***************************************************************************)
(* The rendering payload.                                                  *)
(***************************************************************************)
White == Color(255, 16777215)
Grey == Color(255, 12632256)
Black == Color(0, 0)

Mapping(fontFace, glyphsFrom, glyphsTo) ==
    [fontFace |-> fontFace, glyphsFrom |-> glyphsFrom, glyphsTo |-> glyphsTo]

GlyphOffset(advanceOffset, ascenderOffset) ==
    [advanceOffset |-> advanceOffset, ascenderOffset |-> ascenderOffset]

ShapedRow(lineRendition, glyphIndices, glyphAdvances, glyphOffsets, mappings, gridLineRanges, selectionFrom, selectionTo) ==
    [lineRendition |-> lineRendition, glyphIndices |-> glyphIndices,
     glyphAdvances |-> glyphAdvances, glyphOffsets |-> glyphOffsets,
     colors |-> [i \in 1 .. Len(glyphIndices) |-> White],
     mappings |-> mappings, gridLineRanges |-> gridLineRanges,
     selectionFrom |-> selectionFrom, selectionTo |-> selectionTo]

NoOffset == GlyphOffset(0, 0)

\* The shaped rows that a frame is made of.  Advances are in half pixels.
RowKinds ==
    { ShapedRow("SingleWidth", <<>>, <<>>, <<>>, <<>>, <<>>, 0, 0),
      ShapedRow("SingleWidth", <<65, 66, 8212>>, <<128, 128, 256>>,
                <<NoOffset, NoOffset, NoOffset>>,
                <<Mapping("face", 0, 3)>>, <<>>, 0, 2),
      ShapedRow("SingleWidth", <<32, 67, 65>>, <<127, 129, 128>>,
                <<NoOffset, NoOffset, NoOffset>>,
                <<Mapping("face", 0, 3)>>,
                <<[lines |-> {"Underline"}, from |-> 0, to |-> 2, color |-> Grey]>>, 0, 2),
      ShapedRow("DoubleHeightTop", <<65, 8212>>, <<128, 256>>, <<NoOffset, NoOffset>>,
                <<Mapping("face", 0, 2)>>, <<>>, 0, 0),
      ShapedRow("DoubleHeightBottom", <<65, 8212>>, <<128, 256>>, <<NoOffset, NoOffset>>,
                <<Mapping("face", 0, 2)>>, <<>>, 0, 0),
      ShapedRow("DoubleWidth", <<32, 65, 66>>, <<128, 128, 128>>,
                <<NoOffset, NoOffset, NoOffset>>,
                <<Mapping("face", 0, 3)>>, <<>>, 1, 2),
      ShapedRow("SingleWidth", <<SoftFontFirstGlyph, 769>>, <<128, 0>>,
                <<NoOffset, GlyphOffset(-128, 3)>>,
                <<Mapping("nullptr", 0, 1), Mapping("face", 1, 2)>>, <<>>, 0, 0) }

RECURSIVE SeqsOfLength(_, _)
SeqsOfLength(S, n) ==
    IF n = 0 THEN {<<>>}
    ELSE {Append(q, e) : q \in SeqsOfLength(S, n - 1), e \in S}

RowSeqs == UNION {SeqsOfLength(RowKinds, n) : n \in 1 .. MaxRows}

TargetSizes == {XY(100, 100), XY(200, 200)}

\* cursorRect, cursorColor, cursorType.
CursorKinds ==
    { [cursorRect |-> [left |-> 0, top |-> 0, right |-> 0, bottom |-> 0],
       cursorColor |-> White, cursorType |-> "FullBox"],
      [cursorRect |-> [left |-> 0, top |-> 0, right |-> 1, bottom |-> 1],
       cursorColor |-> White, cursorType |-> "FullBox"],
      [cursorRect |-> [left |-> 0, top |-> 0, right |-> 2, bottom |-> 1],
       cursorColor |-> Grey, cursorType |-> "EmptyBox"] }

\* The background half of the color bitmap: 2 cells per row.
ColorBitmap == <<Color(255, 0), Color(255, 255), Color(255, 0), Color(255, 0),
                 Color(255, 0), Color(255, 0)>>

Payload(generation, fontGeneration, targetSize, rows, cursor, customPixelShaderPath) ==
    [generation |-> generation, fontGeneration |-> fontGeneration,
     miscGeneration |-> 1, customPixelShaderPath |-> customPixelShaderPath,
     useRetroTerminalEffect |-> FALSE, warningCallback |-> TRUE,
     cellCount |-> XY(2, 3),
     targetSize |-> targetSize, antialiasingMode |-> "ClearType",
     rows |-> rows, cursorRect |-> cursor.cursorRect,
     cursorColor |-> cursor.cursorColor, cursorType |-> cursor.cursorType,
     heightPercentage |-> 25, colorBitmap |-> ColorBitmap, colorBitmapRowStride |-> 2,
     colorBitmapGenerations |-> <<1, 1>>,
     selectionColor |-> Grey]

\* The cursor of a payload, as CursorKinds has it.
CursorOf(prev) ==
    [cursorRect |-> prev.cursorRect, cursorColor |-> prev.cursorColor,
     cursorType |-> prev.cursorType]

\* The payloads that may follow the payload prev: the same rows and cursor
\* are rendered again; the settings are the same, or the font settings or
\* the target size have changed, which bumps the generations.
NextPayloads(prev) ==
    {Payload(prev.generation, prev.fontGeneration, prev.targetSize, prev.rows,
             CursorOf(prev), prev.customPixelShaderPath)}
    \cup {Payload(prev.generation + 1, prev.fontGeneration + 1, prev.targetSize, prev.rows,
                  CursorOf(prev), prev.customPixelShaderPath)}
    \cup {Payload(prev.generation + 1, prev.fontGeneration, size, prev.rows, CursorOf(prev),
                  prev.customPixelShaderPath) : size \in TargetSizes \ {prev.targetSize}}

\* p.s->misc->customPixelShaderPath: none, or the path of a shader.
CustomPixelShaderPaths == {"", "shader.hlsl"}

FirstPayloads ==
    {Payload(1, 1, size, rows, cursor, path) :
        size \in TargetSizes, rows \in RowSeqs, cursor \in CursorKinds,
        path \in CustomPixelShaderPaths}

(***************************************************************************)
(* Payloads without text, for the passes that draw the cursor and the      *)
(* selection: these read cursorRect, cursorColor, cursorType, the          *)
(* background colors and each row's selectionFrom/selectionTo only.        *)
(***************************************************************************)
BlankRow(selectionFrom, selectionTo) ==
    ShapedRow("SingleWidth", <<>>, <<>>, <<>>, <<>>, <<>>, selectionFrom, selectionTo)

\* Rows without a selection (to <= from) and rows with one of two spans.
SelectionRows == {BlankRow(0, 0), BlankRow(3, 1), BlankRow(0, 2), BlankRow(1, 3)}

SelectionRowSeqs == UNION {SeqsOfLength(SelectionRows, n) : n \in 1 .. MaxRows + 1}

CursorTypes ==
    {"Legacy", "VerticalBar", "Underscore", "EmptyBox", "FullBox", "DoubleUnderscore"}

\* A cursor on row 0 that is empty, one cell wide or three cells wide.
WideCursors ==
    {[cursorRect |-> [left |-> 0, top |-> 0, right |-> right, bottom |-> 1],
      cursorColor |-> color, cursorType |-> type] :
        right \in {0, 1, 3}, color \in {White, Grey}, type \in CursorTypes}

\* The background colors of the cells 0..3 of row 0: all alike, a change
\* after the first cell, a change after the second, two changes, and a
\* change of the alpha byte only.
WideColorBitmaps ==
    { <<Color(255, 0), Color(255, 0), Color(255, 0), Color(255, 0)>>,
      <<Color(255, 0), Color(255, 255), Color(255, 255), Color(255, 0)>>,
      <<Color(255, 0), Color(255, 0), Color(255, 255), Color(255, 0)>>,
      <<Color(255, 0), Color(255, 255), Color(255, 0), Color(255, 0)>>,
      <<Color(255, 0), Color(0, 0), Color(255, 0), Color(255, 0)>> }

DecorationPayloads ==
    {Payload(1, 1, XY(200, 200), rows,
             CHOOSE c \in CursorKinds : CursorRectEmpty(c.cursorRect), "") :
        rows \in SelectionRowSeqs}
    \cup {[Payload(1, 1, XY(200, 200), <<BlankRow(0, 0)>>, cursor, "")
              EXCEPT !.colorBitmap = bitmap, !.colorBitmapRowStride = Len(bitmap)] :
            cursor \in WideCursors, bitmap \in WideColorBitmaps}

\* The next frame has the same rows and colors; the cursor has moved on, is
\* one cell wide or is three cells wide.
NextDecorationPayloads(prev) ==
    {[prev EXCEPT !.cursorRect.right = right] : right \in {0, 1, 3}}

(***************************************************************************)
(* Payloads for the settings sync: every combination of changed font       *)
(* settings, changed misc settings and a changed cell count bumps the      *)
(* general generation, which may also change on its own.                   *)
(***************************************************************************)
AntialiasingModes == {"ClearType", "Grayscale"}

CellCounts == {XY(2, 3), XY(4, 3)}

SettingsRows ==
    {<<ShapedRow("SingleWidth", <<65, 66, 8212>>, <<128, 128, 256>>,
                 <<NoOffset, NoOffset, NoOffset>>, <<Mapping("face", 0, 3)>>, <<>>, 0, 0)>>,
     <<ShapedRow("SingleWidth", <<SoftFontFirstGlyph, 65>>, <<128, 128>>,
                 <<NoOffset, NoOffset>>,
                 <<Mapping("nullptr", 0, 1), Mapping("face", 1, 2)>>, <<>>, 0, 0)>>}

SettingsPayload(generation, fontGeneration, miscGeneration, rows, mode, path, cellCount) ==
    [Payload(generation, fontGeneration, XY(200, 200), rows,
             CHOOSE c \in CursorKinds : CursorRectEmpty(c.cursorRect), path)
        EXCEPT !.miscGeneration = miscGeneration, !.antialiasingMode = mode,
               !.cellCount = cellCount]

SettingsPayloads ==
    {SettingsPayload(1, 1, 1, rows, mode, path, cellCount) :
        rows \in SettingsRows, mode \in AntialiasingModes,
        path \in CustomPixelShaderPaths, cellCount \in CellCounts}

NextSettingsPayloads(prev) ==
    {prev, [prev EXCEPT !.generation = @ + 1]}
    \cup {SettingsPayload(prev.generation + 1,
                          prev.fontGeneration + (IF font THEN 1 ELSE 0),
                          prev.miscGeneration + (IF misc THEN 1 ELSE 0),
                          prev.rows,
                          IF font THEN mode ELSE prev.antialiasingMode,
                          IF misc THEN path ELSE prev.customPixelShaderPath,
                          cellCount) :
            font \in BOOLEAN, misc \in BOOLEAN, mode \in AntialiasingModes,
            path \in CustomPixelShaderPaths, cellCount \in CellCounts}

(***************************************************************************)
(* Payloads for the frames in which a device call of the text pass fails.  *)
(***************************************************************************)
AbortPayloads ==
    {Payload(1, 1, XY(200, 200), rows,
             CHOOSE c \in CursorKinds : CursorRectEmpty(c.cursorRect), "") :
        rows \in RowSeqs}

(***************************************************************************)
(* Payloads for the custom shader: the settings name no shader, a shader   *)
(* that compiles or one that does not, with or without the retro effect    *)
(* and with or without a warningCallback.                                  *)
(***************************************************************************)
ShaderPaths == {"", "shader.hlsl", "broken.hlsl"}

ShaderPayload(generation, path, retro, callback) ==
    [Payload(generation, 1, XY(200, 200), <<BlankRow(0, 0)>>,
             CHOOSE c \in CursorKinds : CursorRectEmpty(c.cursorRect), path)
        EXCEPT !.miscGeneration = generation, !.useRetroTerminalEffect = retro,
               !.warningCallback = callback]

ShaderPayloads ==
    {ShaderPayload(1, path, retro, callback) :
        path \in ShaderPaths, retro \in BOOLEAN, callback \in BOOLEAN}

\* The same settings again, or changed misc settings.
NextShaderPayloads(prev) ==
    {prev} \cup {ShaderPayload(prev.generation + 1, path, retro, callback) :
                    path \in ShaderPaths, retro \in BOOLEAN, callback \in BOOLEAN}

(***************************************************************************)
(* Calls of the size computation of _resetGlyphAtlas: the cell size of the *)
(* font, the target size in pixels (a target has at least one pixel) and   *)
(* the size of the atlas so far.                                           *)
(***************************************************************************)
AtlasCellSizes == {XY(1, 1), XY(8, 16), XY(64, 128)}

AtlasTargetSizes ==
    {XY(1, 1), XY(2, 1), XY(2, 2), XY(3, 3), XY(100, 100), XY(200, 200), XY(481, 109),
     XY(1000, 1000), XY(8192, 8192)}

AtlasSizes == {XY(0, 0), XY(128, 128), XY(1024, 512), XY(8192, 8192)}

AtlasSizeCalls ==
    {[function |-> "resetGlyphAtlas", cellSize |-> cellSize, targetSize |-> targetSize,
      width |-> size.x, height |-> size.y, returned |-> FALSE, area |-> 0, u |-> 0, v |-> 0] :
        cellSize \in AtlasCellSizes, targetSize \in AtlasTargetSizes, size \in AtlasSizes}

(***************************************************************************)
(* State.                                                                  *)
(***************************************************************************)
VARIABLES
    backend,    \* the BackendD3D object, the device state and the observations
    payload,    \* the RenderingPayload of the current frame
    pc,         \* the position inside Render
    frame,      \* the number of calls of Render so far
    textY,      \* _drawText: y
    textM,      \* _drawText: the index of the mapping m in row->mappings
    textX,      \* _drawText: x
    baselineX,  \* _drawText: baselineX, in half pixels
    shadingTypeAccumulator,  \* _drawText: the shading types or-ed together
    call,       \* a call of a function that keeps no state: its arguments and result
    dirty,      \* what Render writes back to its caller: each row's dirtyTop and
                \* dirtyBottom and p.dirtyRectInPx, with p.invalidatedRows and the
                \* dirtyTop and dirtyBottom of _drawText
    watcher,    \* the thread of _sourceCodeWatcher: its position in the callback
    steady_clock    \* std::chrono::steady_clock::now(), in milliseconds

vars ==
    <<backend, payload, pc, frame, textY, textM, textX, baselineX, shadingTypeAccumulator, call,
      dirty, watcher, steady_clock>>

textLocals == <<textY, textM, textX, baselineX, shadingTypeAccumulator>>

\* The value that _sourceCodeInvalidationTime holds when no shader source has
\* changed: it stands for 2^63 - 1 and is larger than every time of the model.
INT64_MAX == 2147483647

\* The watcher thread between two callbacks. `notified` counts the callbacks
\* for a .hlsl file that have begun and `deadlines` collects the times they
\* computed; the program reads neither.
WatcherIdle == [pc |-> "idle", invalidationTime |-> 0, notified |-> 0, deadlines |-> {}]

\* til::CoordTypeMax and til::CoordTypeMin
CoordTypeMax == 2147483647
CoordTypeMin == -2147483647 - 1

\* A row's dirtyTop and dirtyBottom, or the top and bottom of a rect.
Span(top, bottom) == [top |-> top, bottom |-> bottom]

\* invalidatedRows as a range that names every row: the fault that
\* C29_DirtyRectWidened must detect.
RangeContainsAll(range, y) == TRUE

\* til::range::contains
RangeContains(range, y) == range.start <= y /\ y < range.end

\* What the caller of Render hands over: the rows' dirty spans, the range
\* invalidatedRows and dirtyRectInPx; `before` keeps the dirtyRectInPx of
\* the entry.
Paint(rowSpans, invalidatedRows, dirtyRectInPx) ==
    [rows |-> rowSpans, invalidatedRows |-> invalidatedRows,
     dirtyRectInPx |-> dirtyRectInPx, before |-> dirtyRectInPx,
     dirtyTop |-> CoordTypeMax, dirtyBottom |-> CoordTypeMin]

\* The pixels of the cell row y.
CellRowSpan(y) == Span(y * Font.cellSize.y, (y + 1) * Font.cellSize.y)

\* A frame that repaints every row: each row's dirty span is its own cell
\* row and dirtyRectInPx spans them all.
PaintAll(p) ==
    Paint([i \in 1 .. Len(p.rows) |-> CellRowSpan(i - 1)],
          [start |-> 0, end |-> Len(p.rows)],
          Span(0, Len(p.rows) * Font.cellSize.y))

\* No function is being called on its own.
NoCall == [function |-> "none"]

\* The renderer after its construction, before the first call of Render.
InitRenderer ==
    /\ backend = [generation |-> 0, fontGeneration |-> 0, miscGeneration |-> 0,
                  customPixelShader |-> FALSE, postProcessed |-> FALSE,
                  requiresContinuousRedraw |-> FALSE,
                  renderTargetView |-> NoView, customRenderTargetView |-> NoView,
                  customOffscreenTexture |-> NoView, offscreenTextures |-> 0,
                  compileFailed |-> FALSE, warnings |-> 0,
                  cellCount |-> XY(0, 0), colorBitmapSize |-> XY(0, 0),
                  fontDependentsUpdates |-> 0, customShaderRecreations |-> 0,
                  colorBitmapRecreations |-> 0,
                  before |-> [generation |-> 0, fontGeneration |-> 0,
                              miscGeneration |-> 0, cellCount |-> XY(0, 0)],
                  targetSize |-> XY(0, 0),
                  fontChangedResetGlyphAtlas |-> FALSE,
                  textShadingType |-> ShadingDefault,
                  glyphAtlasMap |-> [k \in AtlasFontFaceKeys |-> EmptySlot],
                  rectPacker |-> stbrp_init_target(0, 0),
                  d2dBeganDrawing |-> FALSE,
                  instances |-> <<>>, instancesStateChanges |-> <<>>,
                  instancesSize |-> 0,
                  sourceCodeInvalidationTime |-> INT64_MAX,
                  shaderCompiles |-> 0, compiledNotifications |-> 0,
                  instanceBufferCapacity |-> 0, instanceBufferByteWidth |-> 0,
                  uploaded |-> [count |-> 0, capacity |-> 0],
                  recreatedFor |-> [count |-> 0, minCapacity |-> 0],
                  cursorRects |-> <<>>,
                  skipForegroundBitmapUpload |-> FALSE,
                  colorBitmapGenerations |-> <<NoGeneration, NoGeneration>>,
                  colorBitmapUploads |-> 0,
                  thrown |-> FALSE,
                  rtDrawing |-> FALSE, blendState |-> "nullptr", atlasSize |-> XY(0, 0),
                  drawn |-> <<>>, drawCalls |-> <<>>, appended |-> 0,
                  flushWhileDrawing |-> FALSE, resetWhileDrawing |-> FALSE,
                  nestedBeginDraw |-> FALSE,
                  resetsInRun |-> 0, maxResetsInRun |-> 0, resetsInFrame |-> 0, resetOnEmptyAtlas |-> FALSE,
                  justReset |-> FALSE, outerBeforeReset |-> {},
                  packFull |-> FALSE, packFullAt |-> NoGlyph, presented |-> FALSE]
    /\ payload = Payload(0, 0, XY(0, 0), <<>>,
                         CHOOSE c \in CursorKinds : CursorRectEmpty(c.cursorRect), "")
    /\ pc = "idle"
    /\ frame = 0
    /\ textY = 0 /\ textM = 0 /\ textX = 0 /\ baselineX = 0
    /\ shadingTypeAccumulator = {}
    /\ dirty = Paint(<<>>, [start |-> 0, end |-> 0], Span(CoordTypeMax, CoordTypeMin))
    /\ watcher = WatcherIdle
    /\ steady_clock = 0

Init == InitRenderer /\ call = NoCall

\* A call of the size computation of _resetGlyphAtlas is about to be made.
InitAtlasSize == InitRenderer /\ call \in AtlasSizeCalls

\* _resetGlyphAtlas up to `const auto v = ...`.
ResetGlyphAtlas_Size ==
    /\ call.function = "resetGlyphAtlas"
    /\ ~call.returned
    /\ LET area == AtlasAreaOf(call.cellSize, call.targetSize, call.width, call.height)
       IN  \E index \in AtlasBitIndexOf(area) :
              call' = [call EXCEPT !.returned = TRUE, !.area = area,
                                   !.u = AtlasU(index), !.v = AtlasV(index)]
    /\ UNCHANGED <<backend, payload, pc, frame, textLocals, watcher, steady_clock, dirty>>

AtlasSizeSpec == InitAtlasSize /\ [][ResetGlyphAtlas_Size]_vars

\* What every step forgets of the step before it.
Step(s) == [s EXCEPT !.justReset = FALSE, !.packFull = FALSE]

(***************************************************************************)
(* BackendD3D::Render, step by step.                                       *)
(***************************************************************************)
\* The entry of Render: what the model records of one frame starts afresh.
BeginFrame(s) ==
    [Step(s) EXCEPT !.thrown = FALSE, !.drawn = <<>>, !.drawCalls = <<>>,
                    !.colorBitmapUploads = 0,
                    !.appended = Len(s.instances),
                    !.resetsInRun = 0, !.maxResetsInRun = 0,
                    !.resetsInFrame = 0,
                    !.packFullAt = NoGlyph,
                    !.postProcessed = FALSE, !.presented = FALSE,
                    !.compileFailed = FALSE, !.warnings = 0,
                    !.fontDependentsUpdates = 0,
                    !.customShaderRecreations = 0,
                    !.colorBitmapRecreations = 0,
                    !.before = [generation |-> s.generation,
                                fontGeneration |-> s.fontGeneration,
                                miscGeneration |-> s.miscGeneration,
                                cellCount |-> s.cellCount]]

\* Render(p) up to and including _drawBackground, for a payload with the
\* dirty spans d.
RenderBeginPaint(p, d) ==
    LET s0 == BeginFrame(backend)
        s1 == IF s0.generation # p.generation THEN handleSettingsUpdate(s0, p) ELSE s0
    IN  /\ payload' = p
        /\ dirty' = d
        /\ backend' = drawBackground(s1, p)
        /\ frame' = frame + 1
        /\ pc' = "cursor1"
        /\ UNCHANGED textLocals

\* Render(p) up to and including _drawBackground, for a frame that repaints
\* every row.
RenderBegin(p) == RenderBeginPaint(p, PaintAll(p))

\* A call of Render with a frame of text.
Render_Begin ==
    /\ pc = "idle"
    /\ frame < MaxFrames
    /\ \E p \in IF frame = 0 THEN FirstPayloads ELSE NextPayloads(payload) : RenderBegin(p)
    /\ UNCHANGED <<call, watcher, steady_clock>>

\* A call of Render with a frame that has no text: a cursor or a selection
\* over blank rows.
Render_BeginDecorations ==
    /\ pc = "idle"
    /\ frame < MaxFrames + 1
    /\ \E p \in IF frame = 0 THEN DecorationPayloads ELSE NextDecorationPayloads(payload) :
          RenderBegin(p)
    /\ UNCHANGED <<call, watcher, steady_clock>>

\* A call of Render of a frame of text on a device whose calls may fail.
Render_BeginAbort ==
    /\ pc = "idle"
    /\ frame < MaxFrames + 1
    /\ \E p \in IF frame = 0 THEN AbortPayloads ELSE NextPayloads(payload) : RenderBegin(p)
    /\ UNCHANGED <<call, watcher, steady_clock>>

\* A call of Render whose settings may have changed.
Render_BeginSettings ==
    /\ pc = "idle"
    /\ frame < MaxFrames + 1
    /\ \E p \in IF frame = 0 THEN SettingsPayloads ELSE NextSettingsPayloads(payload) :
          RenderBegin(p)
    /\ UNCHANGED <<call, watcher, steady_clock>>

\* A call of Render whose settings may name a custom shader.
Render_BeginShader ==
    /\ pc = "idle"
    /\ frame < MaxFrames + 1
    /\ \E p \in IF frame = 0 THEN ShaderPayloads ELSE NextShaderPayloads(payload) :
          RenderBegin(p)
    /\ UNCHANGED <<call, watcher, steady_clock>>

DrawCursorPart1 ==
    /\ pc = "cursor1"
    /\ backend' = drawCursorPart1(Step(backend), payload)
    /\ pc' = "text"
    /\ UNCHANGED <<payload, frame, textLocals>>
    /\ UNCHANGED <<call, watcher, steady_clock, dirty>>

\* _drawText up to its loop over the rows.
DrawText_Begin ==
    /\ pc = "text"
    /\ \E index \in AtlasBitIndex(backend, payload) :
        backend' = [(IF backend.fontChangedResetGlyphAtlas
                     THEN resetGlyphAtlas(Step(backend), payload, index)
                     ELSE Step(backend))
                        EXCEPT !.skipForegroundBitmapUpload = FALSE]
    /\ shadingTypeAccumulator' = {}
    /\ textY' = 0
    /\ dirty' = [dirty EXCEPT !.dirtyTop = CoordTypeMax, !.dirtyBottom = CoordTypeMin]
    /\ pc' = "row"
    /\ UNCHANGED <<payload, frame, textM, textX, baselineX>>
    /\ UNCHANGED <<call, watcher, steady_clock>>

\* for (const auto row : p.rows): the loop test and the locals of the body.
DrawText_Row ==
    /\ pc = "row"
    /\ IF textY < Len(payload.rows)
       THEN /\ baselineX' = 0
            /\ textM' = 0
            /\ pc' = "mapping"
       ELSE /\ pc' = "textEnd"
            /\ UNCHANGED <<baselineX, textM>>
    /\ backend' = Step(backend)
    /\ UNCHANGED <<payload, frame, textY, textX, shadingTypeAccumulator>>
    /\ UNCHANGED <<call, watcher, steady_clock, dirty>>

\* for (const auto& m : row->mappings): the loop test, `auto x = m.glyphsFrom`
\* and, after the last mapping, the end of the body of the row loop.
DrawText_Mapping ==
    /\ pc = "mapping"
    /\ LET row == payload.rows[textY + 1]
       IN  IF textM < Len(row.mappings)
           THEN /\ textX' = row.mappings[textM + 1].glyphsFrom
                /\ backend' = [Step(backend) EXCEPT !.resetsInRun = 0]
                /\ pc' = "drawGlyphRetry"
                /\ UNCHANGED <<textY, dirty>>
           ELSE /\ dirty' = IF RangeContains(dirty.invalidatedRows, textY)
                            THEN [dirty EXCEPT
                                     !.dirtyTop = Min(@, dirty.rows[textY + 1].top),
                                     !.dirtyBottom = Max(@, dirty.rows[textY + 1].bottom)]
                            ELSE dirty
                /\ textY' = textY + 1
                /\ backend' = Step(backend)
                /\ pc' = "row"
                /\ UNCHANGED textX
    /\ UNCHANGED <<payload, frame, textM, baselineX, shadingTypeAccumulator>>
    /\ UNCHANGED <<call, watcher, steady_clock>>

CurrentKey ==
    AtlasFontFaceKey(payload.rows[textY + 1].mappings[textM + 1].fontFace,
                     payload.rows[textY + 1].lineRendition)

\* A retry that starts shadingTypeAccumulator over, as if it were declared
\* inside the retried block: the fault that C15_SkipForegroundUpload must
\* detect.
DrawText_RetryClearsAccumulator ==
    /\ pc = "drawGlyphRetry"
    /\ backend' = [Step(backend) EXCEPT !.glyphAtlasMap = MapInsert(@, CurrentKey)]
    /\ pc' = "while"
    /\ shadingTypeAccumulator' = {}
    /\ UNCHANGED <<payload, frame, textY, textM, textX, baselineX>>
    /\ UNCHANGED <<call, watcher, steady_clock, dirty>>

\* drawGlyphRetry: auto& fontFaceEntry = *_glyphAtlasMap.insert(fontFaceKey).first.inner
DrawText_Retry ==
    /\ pc = "drawGlyphRetry"
    /\ backend' = [Step(backend) EXCEPT !.glyphAtlasMap = MapInsert(@, CurrentKey)]
    /\ pc' = "while"
    /\ UNCHANGED <<payload, frame, textLocals>>
    /\ UNCHANGED <<call, watcher, steady_clock, dirty>>

\* An emission test that lets every entry through: the fault that
\* C10_NoDefaultQuad must detect.
ShouldEmitAlways(entry) == TRUE

\* if (glyphEntry.data.shadingType != ShadingType::Default)
ShouldEmit(entry) == entry.shadingType # ShadingDefault

\* The text quad of _drawText for the glyph at x of row y.
TextQuad(row, y, x, entry, bX) ==
    LET baselineY == y * Font.cellSize.y + Font.baseline
        lineRenditionScale == IF row.lineRendition # "SingleWidth" THEN 1 ELSE 0
        l == lrintf(bX + row.glyphOffsets[x + 1].advanceOffset) * Pow2(lineRenditionScale)
             + entry.offset.x
        t == lrintf(2 * baselineY - row.glyphOffsets[x + 1].ascenderOffset) + entry.offset.y
    IN  Quad(entry.shadingType, XY(ToI16(l), ToI16(t)), entry.size, entry.texcoord,
             row.colors[x + 1], "text", [y |-> y, x |-> x])

\* `t` of _drawText for the glyph at x of row y, before it is narrowed to
\* the i16 of the quad.
TextQuadTop(row, y, x, entry) ==
    LET baselineY == y * Font.cellSize.y + Font.baseline
    IN  lrintf(2 * baselineY - row.glyphOffsets[x + 1].ascenderOffset) + entry.offset.y

\* A retry that starts the run over: the fault that C3_ResetKeepsText must
\* detect.
RetryFromGlyphsFrom(m, x) == m.glyphsFrom

\* Where _drawText continues after _drawGlyph returned false.
RetryFrom(m, x) == x

\* A pass through the body of while (x < m.glyphsTo) in which a device call
\* of _drawGlyph fails before the glyph is packed (THROW_IF_FAILED of
\* GetRecommendedRenderingMode, CreateGlyphRunAnalysis or
\* GetGlyphRunWorldBounds): the exception leaves _drawText and Render.
DrawText_GlyphFails ==
    /\ pc = "while"
    /\ LET row == payload.rows[textY + 1]
           m == row.mappings[textM + 1]
           key == CurrentKey
           glyphIndex == row.glyphIndices[textX + 1]
           s0 == Step(backend)
       IN  /\ textX < m.glyphsTo
           /\ key.fontFace # "nullptr"
           /\ ~HasGlyph(s0.glyphAtlasMap, key, glyphIndex)
           /\ backend' = [s0 EXCEPT
                             !.glyphAtlasMap = PutGlyph(@, key, NewGlyphEntry(glyphIndex)),
                             !.thrown = TRUE]
    /\ pc' = "idle"
    /\ UNCHANGED <<payload, frame, textLocals>>
    /\ UNCHANGED <<call, watcher, steady_clock, dirty>>

\* One pass through the body of while (x < m.glyphsTo).
DrawText_Glyph ==
    /\ pc = "while"
    /\ LET row == payload.rows[textY + 1]
           m == row.mappings[textM + 1]
           key == CurrentKey
           glyphIndex == row.glyphIndices[textX + 1]
           s0 == Step(backend)
           inserted == ~HasGlyph(s0.glyphAtlasMap, key, glyphIndex)
           s1 == IF inserted
                 THEN [s0 EXCEPT !.glyphAtlasMap = PutGlyph(@, key, NewGlyphEntry(glyphIndex))]
                 ELSE s0
       IN  /\ textX < m.glyphsTo
           /\ \E index \in AtlasBitIndex(s1, payload) :
               LET drawnGlyph == IF inserted THEN drawGlyph(s1, payload, key, glyphIndex, index)
                                 ELSE [ok |-> TRUE, s |-> s1]
                   s2 == drawnGlyph.s
               IN  IF ~drawnGlyph.ok
                   THEN IF s2.thrown
                        THEN /\ backend' = s2
                             /\ pc' = "idle"
                             /\ UNCHANGED <<textLocals, dirty>>
                        ELSE /\ backend' = [s2 EXCEPT !.packFull = TRUE,
                                                      !.packFullAt = [y |-> textY, x |-> textX]]
                             /\ textX' = RetryFrom(m, textX)
                             /\ pc' = "drawGlyphRetry"
                             /\ UNCHANGED <<textY, textM, baselineX, shadingTypeAccumulator,
                                             dirty>>
                   ELSE LET entry == GetGlyph(s2.glyphAtlasMap, key, glyphIndex)
                        IN  /\ IF ShouldEmit(entry)
                               THEN /\ backend' = appendQuad(s2,
                                           TextQuad(row, textY, textX, entry, baselineX))
                                    /\ shadingTypeAccumulator' =
                                           shadingTypeAccumulator \cup {entry.shadingType}
                                    /\ dirty' = [dirty EXCEPT !.rows[textY + 1] =
                                           LET t == TextQuadTop(row, textY, textX, entry)
                                           IN  Span(Min(@.top, t),
                                                    Max(@.bottom, t + entry.size.y))]
                               ELSE /\ backend' = s2
                                    /\ UNCHANGED <<shadingTypeAccumulator, dirty>>
                            /\ baselineX' = baselineX + row.glyphAdvances[textX + 1]
                            /\ textX' = textX + 1
                            /\ pc' = "while"
                            /\ UNCHANGED <<textY, textM>>
    /\ UNCHANGED <<payload, frame>>
    /\ UNCHANGED <<call, watcher, steady_clock>>

\* The exit of while (x < m.glyphsTo): on to the next mapping.
DrawText_RunDone ==
    /\ pc = "while"
    /\ textX >= payload.rows[textY + 1].mappings[textM + 1].glyphsTo
    /\ textM' = textM + 1
    /\ backend' = Step(backend)
    /\ pc' = "mapping"
    /\ UNCHANGED <<payload, frame, textY, textX, baselineX, shadingTypeAccumulator>>
    /\ UNCHANGED <<call, watcher, steady_clock, dirty>>

\* if (dirtyTop < dirtyBottom) { ... } of _drawText: p.dirtyRectInPx
\* afterwards.
ExtendDirtyRect(rect, dirtyTop, dirtyBottom) ==
    IF dirtyTop < dirtyBottom
    THEN Span(Min(rect.top, dirtyTop), Max(rect.bottom, dirtyBottom))
    ELSE rect

\* _drawText after its loop over the rows.
DrawText_End ==
    /\ pc = "textEnd"
    /\ backend' = [d2dEndDrawing(Step(backend)) EXCEPT
                      !.skipForegroundBitmapUpload =
                          \A t \in shadingTypeAccumulator : ~t.ligatureMarker]
    /\ dirty' = [dirty EXCEPT !.dirtyRectInPx =
                    ExtendDirtyRect(@, dirty.dirtyTop, dirty.dirtyBottom)]
    /\ pc' = "gridlines"
    /\ UNCHANGED <<payload, frame, textLocals>>
    /\ UNCHANGED <<call, watcher, steady_clock>>

DrawGridlines ==
    /\ pc = "gridlines"
    /\ backend' = drawGridlines(Step(backend), payload, 0)
    /\ pc' = "cursor2"
    /\ UNCHANGED <<payload, frame, textLocals>>
    /\ UNCHANGED <<call, watcher, steady_clock, dirty>>

DrawCursorPart2 ==
    /\ pc = "cursor2"
    /\ backend' = drawCursorPart2(Step(backend), payload)
    /\ pc' = "selection"
    /\ UNCHANGED <<payload, frame, textLocals>>
    /\ UNCHANGED <<call, watcher, steady_clock, dirty>>

DrawSelection ==
    /\ pc = "selection"
    /\ backend' = drawSelection(Step(backend), payload, 0, 0, 0)
    /\ pc' = "flush"
    /\ UNCHANGED <<payload, frame, textLocals>>
    /\ UNCHANGED <<call, watcher, steady_clock, dirty>>

\* The _flushQuads of Render.
FlushQuads ==
    /\ pc = "flush"
    /\ backend' = flushQuads(Step(backend), payload)
    /\ pc' = IF backend.customPixelShader THEN "customShader" ELSE "present"
    /\ UNCHANGED <<payload, frame, textLocals>>
    /\ UNCHANGED <<call, watcher, steady_clock, dirty>>

\* if (_customPixelShader) _executeCustomShader(p): the post-process pass.
ExecuteCustomShader ==
    /\ pc = "customShader"
    /\ backend' = executeCustomShader(Step(backend))
    /\ pc' = "present"
    /\ UNCHANGED <<payload, frame, textLocals>>
    /\ UNCHANGED <<call, watcher, steady_clock, dirty>>

\* _swapChainManager.Present(p)
Present ==
    /\ pc = "present"
    /\ backend' = [Step(backend) EXCEPT !.presented = TRUE]
    /\ pc' = "idle"
    /\ UNCHANGED <<payload, frame, textLocals>>
    /\ UNCHANGED <<call, watcher, steady_clock, dirty>>

Next ==
    \/ Render_Begin
    \/ DrawCursorPart1
    \/ DrawText_Begin
    \/ DrawText_Row
    \/ DrawText_Mapping
    \/ DrawText_Retry
    \/ DrawText_Glyph
    \/ DrawText_RunDone
    \/ DrawText_End
    \/ DrawGridlines
    \/ DrawCursorPart2
    \/ DrawSelection
    \/ FlushQuads
    \/ ExecuteCustomShader
    \/ Present

Spec == Init /\ [][Next]_vars

\* The frames without text: the text pass finds no glyph in them.
NextDecorations ==
    \/ Render_BeginDecorations
    \/ DrawCursorPart1
    \/ DrawText_Begin
    \/ DrawText_Row
    \/ DrawText_Mapping
    \/ DrawText_End
    \/ DrawGridlines
    \/ DrawCursorPart2
    \/ DrawSelection
    \/ FlushQuads
    \/ Present

DecorationSpec == Init /\ [][NextDecorations]_vars

\* The frames whose settings name a custom shader.
NextShader ==
    \/ Render_BeginShader
    \/ DrawCursorPart1
    \/ DrawText_Begin
    \/ DrawText_Row
    \/ DrawText_Mapping
    \/ DrawText_End
    \/ DrawGridlines
    \/ DrawCursorPart2
    \/ DrawSelection
    \/ FlushQuads
    \/ ExecuteCustomShader
    \/ Present

ShaderSpec == Init /\ [][NextShader]_vars

\* The frames whose settings change from one to the next.
NextSettings ==
    \/ Render_BeginSettings
    \/ DrawCursorPart1
    \/ DrawText_Begin
    \/ DrawText_Row
    \/ DrawText_Mapping
    \/ DrawText_Retry
    \/ DrawText_Glyph
    \/ DrawText_RunDone
    \/ DrawText_End
    \/ DrawGridlines
    \/ DrawCursorPart2
    \/ DrawSelection
    \/ FlushQuads
    \/ ExecuteCustomShader
    \/ Present

SettingsSpec == Init /\ [][NextSettings]_vars

\* The frames of text on a device whose calls may fail.
NextAbort ==
    \/ Render_BeginAbort
    \/ DrawCursorPart1
    \/ DrawText_Begin
    \/ DrawText_Row
    \/ DrawText_Mapping
    \/ DrawText_Retry
    \/ DrawText_Glyph
    \/ DrawText_GlyphFails
    \/ DrawText_RunDone
    \/ DrawText_End
    \/ DrawGridlines
    \/ DrawCursorPart2
    \/ DrawSelection
    \/ FlushQuads
    \/ Present

AbortSpec == Init /\ [][NextAbort]_vars

PcValues ==
    {"idle", "cursor1", "text", "row", "mapping", "drawGlyphRetry", "while",
     "textEnd", "gridlines", "cursor2", "selection", "flush", "customShader",
     "present"}

\* The values of x in _drawText: up to the longest row->glyphIndices.
XValues == 0 .. Len((CHOOSE r \in RowKinds : \A q \in RowKinds :
                            Len(q.glyphIndices) <= Len(r.glyphIndices)).glyphIndices)

\* A step of a call of Render after its first, seen through pc and x: each
\* of them moves pc, except the pass through the loop body that draws a
\* glyph, which increments x.
Advance ==
    /\ pc # "idle"
    /\ pc' \in PcValues
    /\ textX' \in XValues
    /\ <<pc', textX'>> # <<pc, textX>>

\* A call of Render runs straight through: no step of it waits for anything.
\* Nothing forces the caller to begin another frame.
FairSpec == Spec /\ WF_<<pc, textX>>(Advance)

TypeOK ==
    /\ pc \in PcValues
    /\ textX \in XValues
    /\ frame \in 0 .. MaxFrames + 1

(***************************************************************************)
(* Observations shared by the properties below.                            *)
(***************************************************************************)
InTextPass == pc \in {"row", "mapping", "drawGlyphRetry", "while", "textEnd"}

TextPassOver == pc \in {"gridlines", "idle"}

(***************************************************************************)
(* C1: for any payload the text pass terminates, and while one font-face   *)
(* run is processed at most one atlas reset is caused by a pack failure.   *)
(***************************************************************************)
C1_TextPassTerminates ==
    (pc = "text") ~> (TextPassOver /\ backend.maxResetsInRun <= 1)

(***************************************************************************)
(* C2: a glyph that fails to pack into an atlas that holds no rasterized   *)
(* glyph makes the text pass fail with the deadlock error; the atlas is    *)
(* never reset on behalf of such a glyph.                                  *)
(***************************************************************************)
C2_DeadlockGuardFires == ~backend.resetOnEmptyAtlas

(***************************************************************************)
(* The quads of the frame so far, in the order in which they reach the     *)
(* GPU: those already drawn, then those waiting in _instances.             *)
(***************************************************************************)
DrawnQuads == [i \in 1 .. Len(backend.drawn) |-> backend.drawn[i].quad]

FrameQuads == DrawnQuads \o backend.instances

IsTextQuad(q) == q.phase = "text"

TextQuads == SelectSeq(FrameQuads, IsTextQuad)

\* What the claims say of a text quad: all of it but its place in the atlas.
Placed(q) ==
    [src |-> q.src, shadingType |-> q.shadingType, position |-> q.position,
     size |-> q.size, color |-> q.color]

\* The cache entry of a glyph that is drawn into an atlas with room to
\* spare, so that no reset happens.
UnresetEntry(key, glyphIndex) ==
    LET roomy == [backend EXCEPT
                     !.rectPacker = stbrp_init_target(D3D10_REQ_TEXTURE2D_U_OR_V_DIMENSION,
                                                      D3D10_REQ_TEXTURE2D_U_OR_V_DIMENSION),
                     !.glyphAtlasMap = PutGlyph(MapInsert(ResetSlots(@), key), key,
                                                NewGlyphEntry(glyphIndex))]
    IN  GetGlyph(drawGlyph(roomy, payload, key, glyphIndex, 0).s.glyphAtlasMap,
                 key, glyphIndex)

\* The text quads of the rows from glyph x of mapping mi of row y on, had no
\* reset happened: one per glyph whose entry is not Default, in run order,
\* bX being the sum of the advances before it.  x < 0 stands for glyphsFrom.
RECURSIVE ExpectedTextQuads(_, _, _, _)
ExpectedTextQuads(y, mi, x, bX) ==
    IF y >= Len(payload.rows) THEN <<>>
    ELSE LET row == payload.rows[y + 1]
         IN  IF mi >= Len(row.mappings) THEN ExpectedTextQuads(y + 1, 0, -1, 0)
             ELSE LET m == row.mappings[mi + 1]
                      from == IF x < 0 THEN m.glyphsFrom ELSE x
                      key == AtlasFontFaceKey(m.fontFace, row.lineRendition)
                  IN  IF from >= m.glyphsTo THEN ExpectedTextQuads(y, mi + 1, -1, bX)
                      ELSE LET entry == UnresetEntry(key, row.glyphIndices[from + 1])
                               rest == ExpectedTextQuads(y, mi, from + 1,
                                                         bX + row.glyphAdvances[from + 1])
                           IN  IF entry.shadingType # ShadingDefault
                               THEN <<Placed(TextQuad(row, y, from, entry, bX))>> \o rest
                               ELSE rest

(***************************************************************************)
(* C3: in a frame in which pack failures forced atlas resets, the text     *)
(* pass leaves exactly one text quad for every glyph whose entry is not    *)
(* Default, in run order, each where it would be had no reset happened.    *)
(***************************************************************************)
C3_ResetKeepsText ==
    (pc = "gridlines" /\ backend.resetsInFrame > 0) =>
        [i \in 1 .. Len(TextQuads) |-> Placed(TextQuads[i])] = ExpectedTextQuads(0, 0, -1, 0)

\* A text pass is over whose atlas was reset for a glyph other than the
\* first of its run, with text drawn before and after the reset.
C3_Witness ==
    /\ pc = "gridlines"
    /\ backend.resetsInFrame > 0
    /\ backend.packFullAt.x > 0
    /\ \E i \in 1 .. Len(backend.drawn) : IsTextQuad(backend.drawn[i].quad)
    /\ \E i \in 1 .. Len(backend.instances) : IsTextQuad(backend.instances[i])

(***************************************************************************)
(* C4, as the spec states it: after a glyph of run m failed to pack, the   *)
(* quads are flushed, the atlas is reset outside of any drawing, and the   *)
(* run is processed again from glyph m.glyphsFrom.                         *)
(***************************************************************************)
C4_PackFullRestartsRun ==
    backend.packFull =>
        /\ backend.instances = <<>>
        /\ backend.justReset
        /\ ~backend.flushWhileDrawing /\ ~backend.resetWhileDrawing
        /\ textX = payload.rows[textY + 1].mappings[textM + 1].glyphsFrom

(***************************************************************************)
(* C4, amended: the step in which a glyph of run m fails to pack ends the  *)
(* drawing, flushes the quads, resets the atlas and goes back to the label *)
(* drawGlyphRetry with x and baselineX as they are: the font-face entry is *)
(* inserted again and the glyph that failed is the next one drawn.         *)
(***************************************************************************)
C4_PackFullRetriesGlyph ==
    [][backend'.packFull =>
        /\ backend'.instances = <<>>
        /\ Len(backend'.drawn) = backend'.appended
        /\ backend'.justReset
        /\ ~backend'.flushWhileDrawing /\ ~backend'.resetWhileDrawing
        /\ pc' = "drawGlyphRetry"
        /\ <<textY, textM, textX, baselineX>>' = <<textY, textM, textX, baselineX>>
        /\ backend'.packFullAt = [y |-> textY, x |-> textX]]_vars

\* A glyph other than the first of its run has failed to pack while quads
\* were waiting, and x is still at that glyph.
C4_Witness ==
    /\ backend.packFull
    /\ textX > payload.rows[textY + 1].mappings[textM + 1].glyphsFrom
    /\ backend.drawn # <<>>

C6_DrawingGuard ==
    /\ ~backend.nestedBeginDraw
    /\ ~backend.flushWhileDrawing
    /\ ~backend.resetWhileDrawing
    /\ backend.d2dBeganDrawing = backend.rtDrawing

\* The retry path has just flushed quads and reset the atlas, which is being
\* drawn into again.
C6_Witness ==
    /\ backend.packFull
    /\ backend.drawn # <<>>
    /\ backend.d2dBeganDrawing

(***************************************************************************)
(* C7, as the spec states it: right after a reset no glyph entry is live,  *)
(* the rect packer is empty, and the outer font-face entries that existed  *)
(* before the reset are still in the outer map.                            *)
(***************************************************************************)
C7_ResetPreservesOuter ==
    backend.justReset =>
        /\ LiveEntries(backend.glyphAtlasMap) = {}
        /\ backend.rectPacker.rects = {}
        /\ \A k \in backend.outerBeforeReset : backend.glyphAtlasMap[k].inner

(***************************************************************************)
(* C7, amended: right after a reset no glyph entry is live, the rect       *)
(* packer is empty, and every slot of the outer map has lost its inner     *)
(* entry (font face, line rendition and glyphs), so that _drawText has to  *)
(* insert the font-face entry again.                                       *)
(***************************************************************************)
C7_ResetInvalidatesAll ==
    backend.justReset =>
        /\ LiveEntries(backend.glyphAtlasMap) = {}
        /\ backend.rectPacker.rects = {}
        /\ \A k \in DOMAIN backend.glyphAtlasMap : backend.glyphAtlasMap[k] = EmptySlot

\* An atlas that held font-face entries has just been reset.
C7_Witness ==
    /\ backend.justReset
    /\ backend.outerBeforeReset # {}
    /\ backend.drawn # <<>>

(***************************************************************************)
(* C8: texcoord + size of every text quad lies within the atlas texture    *)
(* that is bound when the quad is drawn, and so does that of every live    *)
(* cache entry, both halves of a split double-height glyph included.       *)
(***************************************************************************)
Within(texcoord, size, atlasSize) ==
    /\ texcoord.x + size.x <= atlasSize.x
    /\ texcoord.y + size.y <= atlasSize.y

C8_TexcoordWithinAtlas ==
    /\ \A i \in 1 .. Len(backend.drawn) :
          IsTextQuad(backend.drawn[i].quad) =>
              Within(backend.drawn[i].quad.texcoord, backend.drawn[i].quad.size,
                     backend.drawn[i].atlasSize)
    /\ \A i \in 1 .. Len(backend.instances) :
          IsTextQuad(backend.instances[i]) =>
              Within(backend.instances[i].texcoord, backend.instances[i].size,
                     backend.atlasSize)
    /\ \A le \in LiveEntries(backend.glyphAtlasMap) :
          Within(le.entry.texcoord, le.entry.size, backend.atlasSize)

\* Both halves of a split double-height glyph are live and not Default, and
\* a text quad of such a row has been drawn.
C8_Witness ==
    /\ \E a, c \in LiveEntries(backend.glyphAtlasMap) :
          /\ a.key.lineRendition = "DoubleHeightTop"
          /\ c.key.lineRendition = "DoubleHeightBottom"
          /\ a.entry.glyphIndex = c.entry.glyphIndex
          /\ a.entry.shadingType # ShadingDefault
          /\ c.entry.shadingType # ShadingDefault
    /\ \E i \in 1 .. Len(backend.drawn) :
          /\ IsTextQuad(backend.drawn[i].quad)
          /\ IsDoubleHeight(payload.rows[backend.drawn[i].quad.src.y + 1].lineRendition)

(***************************************************************************)
(* C9: the atlas rectangles of any two distinct live glyph entries that    *)
(* are not Default do not overlap, the two halves of a split double-height *)
(* glyph and entries made before and after a pack failure included.        *)
(***************************************************************************)
EntryRect(e) == [x |-> e.texcoord.x, y |-> e.texcoord.y, w |-> e.size.x, h |-> e.size.y]

C9_LiveRectsDisjoint ==
    LET drawn == {le \in LiveEntries(backend.glyphAtlasMap) :
                     le.entry.shadingType # ShadingDefault}
    IN  \A a, c \in drawn :
            a # c => ~RectsOverlap(EntryRect(a.entry), EntryRect(c.entry))

\* After a reset in this frame, the two halves of a split glyph and another
\* glyph are live.
C9_Witness ==
    /\ backend.resetsInFrame > 0
    /\ \E a, c, d \in LiveEntries(backend.glyphAtlasMap) :
          /\ a.key.lineRendition = "DoubleHeightTop"
          /\ c.key.lineRendition = "DoubleHeightBottom"
          /\ a.entry.glyphIndex = c.entry.glyphIndex
          /\ d.entry.glyphIndex # a.entry.glyphIndex
          /\ a.entry.shadingType # ShadingDefault
          /\ c.entry.shadingType # ShadingDefault
          /\ d.entry.shadingType # ShadingDefault

(***************************************************************************)
(* C10: no quad of shading type Default is ever appended; a glyph with an  *)
(* empty box and the zero-height half of a split glyph keep a Default      *)
(* entry and get no quad, and their advance is still added to baselineX.   *)
(***************************************************************************)
\* The advances of the glyphs that _drawText has gone through in its row.
RECURSIVE AdvancesBefore(_, _, _)
AdvancesBefore(row, mi, x) ==
    LET m == row.mappings[mi + 1]
    IN  IF x > m.glyphsFrom THEN AdvancesBefore(row, mi, x - 1) + row.glyphAdvances[x]
        ELSE IF mi > 0 THEN AdvancesBefore(row, mi - 1, row.mappings[mi].glyphsTo)
        ELSE 0

C10_NoDefaultQuad ==
    /\ LET quads == FrameQuads
       IN  \A i \in 1 .. Len(quads) : quads[i].shadingType # ShadingDefault
    /\ pc = "while" => baselineX = AdvancesBefore(payload.rows[textY + 1], textM, textX)

\* _drawText has gone past a whitespace glyph and past the zero-height half
\* of a split glyph, which have Default entries, and has added their
\* advances.
C10_Witness ==
    /\ pc = "while"
    /\ textX > 0
    /\ baselineX > 0
    /\ \E le \in LiveEntries(backend.glyphAtlasMap) :
          /\ le.entry.shadingType = ShadingDefault
          /\ le.key.lineRendition = "SingleWidth"
          /\ le.entry.glyphIndex = payload.rows[textY + 1].glyphIndices[textX]
    /\ \E le \in LiveEntries(backend.glyphAtlasMap) :
          /\ le.entry.shadingType = ShadingDefault
          /\ IsDoubleHeight(le.key.lineRendition)

(***************************************************************************)
(* What _drawGlyph and _drawSoftFontGlyph write into a glyph entry before  *)
(* _splitDoubleHeightGlyph is called: the offset and the size of the whole *)
(* glyph as it was rasterized.                                             *)
(***************************************************************************)
RasterizedEntry(key, glyphIndex) ==
    IF key.fontFace = "nullptr"
    THEN [offset |-> XY(0, IF IsDoubleHeight(key.lineRendition)
                           THEN -Font.baseline - Font.cellSize.y ELSE -Font.baseline),
          size |-> XY(IF key.lineRendition # "SingleWidth"
                      THEN Font.cellSize.x * 2 ELSE Font.cellSize.x,
                      IF IsDoubleHeight(key.lineRendition)
                      THEN Font.cellSize.y * 2 ELSE Font.cellSize.y)]
    ELSE LET box == GetGlyphRunWorldBounds(glyphIndex,
                        IF key.lineRendition # "SingleWidth" THEN 2 ELSE 1,
                        IF IsDoubleHeight(key.lineRendition) THEN 2 ELSE 1)
         IN  [offset |-> XY(lrintf(box.left), lrintf(box.top)),
              size |-> XY(lrintf(box.right) - lrintf(box.left),
                          lrintf(box.bottom) - lrintf(box.top))]

\* The live entries of one glyph under the DoubleHeightTop and the
\* DoubleHeightBottom key of one font face.
SplitPairs ==
    LET halves(key) ==
            IF backend.glyphAtlasMap[key].inner
            THEN {[key |-> key, entry |-> e] : e \in backend.glyphAtlasMap[key].glyphs}
            ELSE {}
    IN  UNION {{pair \in halves(AtlasFontFaceKey(f, "DoubleHeightTop"))
                             \X halves(AtlasFontFaceKey(f, "DoubleHeightBottom")) :
                   pair[1].entry.glyphIndex = pair[2].entry.glyphIndex} : f \in FontFaces}

\* The text quads of one glyph position x on rows y and y + 1, the first a
\* DoubleHeightTop row and the second a DoubleHeightBottom row that holds
\* the same glyph with the same offsets at x.
HalfQuadPairs ==
    LET quads == FrameQuads
        onRow(y) == {i \in 1 .. Len(quads) : IsTextQuad(quads[i]) /\ quads[i].src.y = y}
        tops == {y \in 0 .. Len(payload.rows) - 2 :
                    LET r1 == payload.rows[y + 1]
                        r2 == payload.rows[y + 2]
                    IN  /\ r1.lineRendition = "DoubleHeightTop"
                        /\ r2.lineRendition = "DoubleHeightBottom"
                        /\ r1.glyphIndices = r2.glyphIndices
                        /\ r1.glyphOffsets = r2.glyphOffsets
                        /\ r1.mappings = r2.mappings}
    IN  UNION {{pair \in onRow(y) \X onRow(y + 1) :
                   quads[pair[1]].src.x = quads[pair[2]].src.x} : y \in tops}

(***************************************************************************)
(* C11: the two halves of a split double-height glyph of rasterized height *)
(* H satisfy top.size.y + bottom.size.y = H and bottom.texcoord.y =        *)
(* top.texcoord.y + top.size.y, and when the top half is drawn on row y    *)
(* and the bottom half on row y + 1, the bottom edge of the top quad is    *)
(* the top edge of the bottom quad.                                        *)
(***************************************************************************)
C11_HalvesReconstruct ==
    /\ \A pair \in SplitPairs :
          LET top == pair[1].entry
              bottom == pair[2].entry
              whole == RasterizedEntry(pair[1].key, top.glyphIndex)
          IN  /\ top.size.y + bottom.size.y = whole.size.y
              /\ top.size.x = whole.size.x /\ bottom.size.x = whole.size.x
              /\ bottom.texcoord.y = top.texcoord.y + top.size.y
              /\ bottom.texcoord.x = top.texcoord.x
    /\ LET quads == FrameQuads
       IN  \A pair \in HalfQuadPairs :
              /\ quads[pair[1]].position.y + quads[pair[1]].size.y = quads[pair[2]].position.y
              /\ quads[pair[1]].position.x = quads[pair[2]].position.x

\* Both halves of a split glyph are live with a height above zero, and the
\* quads of the two halves have been emitted on rows y and y + 1.
C11_Witness ==
    /\ \E pair \in SplitPairs : pair[1].entry.size.y > 0 /\ pair[2].entry.size.y > 0
    /\ HalfQuadPairs # {}

(***************************************************************************)
(* C12, as the specification states it: the top half of a split glyph is   *)
(* clamp(-originalOffset.y - baseline, 0, H) rows high, originalOffset.y   *)
(* being the vertical offset of the glyph as it was rasterized, before     *)
(* _splitDoubleHeightGlyph takes the descender off it; a half of height    *)
(* zero has the shading type Default.                                      *)
(***************************************************************************)
C12_TopHeightBeforeDescender ==
    \A pair \in SplitPairs :
        LET top == pair[1].entry
            bottom == pair[2].entry
            whole == RasterizedEntry(pair[1].key, top.glyphIndex)
        IN  /\ top.size.y = clamp(-whole.offset.y - Font.baseline, 0, whole.size.y)
            /\ top.size.y = 0 => top.shadingType = ShadingDefault
            /\ bottom.size.y = 0 => bottom.shadingType = ShadingDefault

(***************************************************************************)
(* C12, amended: the top half of a split glyph is                          *)
(* clamp(-(originalOffset.y - descender) - baseline, 0, H) rows high: the  *)
(* offset is measured after the descender has been taken off it and before *)
(* cellSize.y is added to it; a half of height zero has the shading type   *)
(* Default.                                                                *)
(***************************************************************************)
C12_TopHeightAfterDescender ==
    \A pair \in SplitPairs :
        LET top == pair[1].entry
            bottom == pair[2].entry
            whole == RasterizedEntry(pair[1].key, top.glyphIndex)
        IN  /\ top.size.y = clamp(-(whole.offset.y - Font.descender) - Font.baseline,
                                  0, whole.size.y)
            /\ top.size.y = 0 => top.shadingType = ShadingDefault
            /\ bottom.size.y = 0 => bottom.shadingType = ShadingDefault

\* A split glyph whose top height depends on the descender is live, and so
\* is a split glyph with a half of height zero.
C12_Witness ==
    /\ \E pair \in SplitPairs :
          LET whole == RasterizedEntry(pair[1].key, pair[1].entry.glyphIndex)
          IN  /\ pair[1].entry.size.y > 0 /\ pair[2].entry.size.y > 0
              /\ clamp(-whole.offset.y - Font.baseline, 0, whole.size.y)
                     # clamp(-(whole.offset.y - Font.descender) - Font.baseline,
                             0, whole.size.y)
    /\ \E pair \in SplitPairs :
          /\ pair[2].entry.size.y = 0
          /\ pair[1].entry.size.y > 0

(***************************************************************************)
(* The live entries of the glyphs that have been rasterized: those whose   *)
(* black box is not empty.                                                 *)
(***************************************************************************)
RasterizedEntries ==
    {le \in LiveEntries(backend.glyphAtlasMap) :
        LET whole == RasterizedEntry(le.key, le.entry.glyphIndex)
        IN  whole.size.x > 0 /\ whole.size.y > 0}

\* The live entries of glyph le.entry.glyphIndex under the DoubleHeightTop
\* and DoubleHeightBottom keys of the font face of le reconstruct the glyph
\* as it is rasterized for such a row.
StoredAsPair(le) ==
    \E pair \in SplitPairs :
        /\ pair[1].key.fontFace = le.key.fontFace
        /\ pair[1].entry.glyphIndex = le.entry.glyphIndex
        /\ LET whole == RasterizedEntry(pair[1].key, le.entry.glyphIndex)
           IN  /\ pair[1].entry.size.y + pair[2].entry.size.y = whole.size.y
               /\ pair[2].entry.texcoord.y = pair[1].entry.texcoord.y + pair[1].entry.size.y
               /\ pair[1].entry.size.x = whole.size.x
               /\ pair[2].entry.size.x = whole.size.x

(***************************************************************************)
(* C13, as the specification states it: the entries of a glyph rasterized  *)
(* for a row that is not SingleWidth, a DoubleWidth row included, are      *)
(* stored under the DoubleHeightTop and DoubleHeightBottom keys as a pair  *)
(* that reconstructs the glyph.                                            *)
(***************************************************************************)
C13_EveryRenditionSplits ==
    \A le \in RasterizedEntries :
        le.key.lineRendition # "SingleWidth" => StoredAsPair(le)

(***************************************************************************)
(* C13, amended: the entries of a glyph rasterized for a DoubleHeightTop   *)
(* or DoubleHeightBottom row are stored under both of these keys as a pair *)
(* that reconstructs the glyph; a glyph rasterized for a DoubleWidth row   *)
(* is stored whole, as one entry under the DoubleWidth key.                *)
(***************************************************************************)
C13_OnlyDoubleHeightSplits ==
    \A le \in RasterizedEntries :
        /\ IsDoubleHeight(le.key.lineRendition) => StoredAsPair(le)
        /\ le.key.lineRendition = "DoubleWidth" =>
              LET whole == RasterizedEntry(le.key, le.entry.glyphIndex)
              IN  le.entry.size = whole.size /\ le.entry.offset = whole.offset

\* A glyph rasterized for a DoubleWidth row is live and its quad has been
\* emitted while no entry of it is stored under a double-height key, and
\* the frame has a double-height row as well.
C13_Witness ==
    /\ \E le \in RasterizedEntries :
          /\ le.key.lineRendition = "DoubleWidth"
          /\ \A other \in LiveEntries(backend.glyphAtlasMap) :
                IsDoubleHeight(other.key.lineRendition) =>
                    other.entry.glyphIndex # le.entry.glyphIndex
          /\ \E i \in 1 .. Len(FrameQuads) :
                /\ IsTextQuad(FrameQuads[i])
                /\ FrameQuads[i].size = le.entry.size
                /\ payload.rows[FrameQuads[i].src.y + 1].lineRendition = "DoubleWidth"
    /\ \E y \in 1 .. Len(payload.rows) : IsDoubleHeight(payload.rows[y].lineRendition)

(***************************************************************************)
(* The ligature condition of a cache entry, from its rasterized box: bl is *)
(* the rounded left of the box and br its rounded right.                   *)
(***************************************************************************)
EntryIsLigature(le) ==
    LET whole == RasterizedEntry(le.key, le.entry.glyphIndex)
        bl == whole.offset.x
        br == whole.offset.x + whole.size.x
    IN  /\ le.entry.size.x >= Font.cellSize.x
        /\ (bl <= Font.ligatureOverhangTriggerLeft
               \/ br >= Font.ligatureOverhangTriggerRight)

(***************************************************************************)
(* C14, as the specification states it: every cached glyph entry has the   *)
(* LigatureMarker flag in its shadingType if and only if size.w >=         *)
(* cellSize.w and (bl <= ligatureOverhangTriggerLeft or br >=              *)
(* ligatureOverhangTriggerRight).                                          *)
(***************************************************************************)
C14_LigatureMarkerOfEveryEntry ==
    \A le \in RasterizedEntries : le.entry.shadingType.ligatureMarker <=> EntryIsLigature(le)

(***************************************************************************)
(* C14, amended: a cached entry that _drawGlyph has rasterized from a font *)
(* face and that is not Default has the LigatureMarker flag if and only if *)
(* size.w >= cellSize.w and (bl <= ligatureOverhangTriggerLeft or br >=    *)
(* ligatureOverhangTriggerRight); a Default entry, the zero-height half of *)
(* a split ligature included, and a soft-font entry never have the flag.   *)
(***************************************************************************)
C14_LigatureMarkerOfDrawnGlyphs ==
    \A le \in LiveEntries(backend.glyphAtlasMap) :
        IF le.entry.shadingType.type = "Default" \/ le.key.fontFace = "nullptr"
        THEN ~le.entry.shadingType.ligatureMarker
        ELSE le.entry.shadingType.ligatureMarker <=> EntryIsLigature(le)

\* Live at once: an entry that meets the condition and has the flag, an
\* entry of a font face that does not meet it and has no flag, and the
\* zero-height half of a split ligature, which meets it and is Default.
C14_Witness ==
    /\ \E le \in RasterizedEntries :
          le.entry.shadingType.ligatureMarker /\ EntryIsLigature(le)
    /\ \E le \in RasterizedEntries :
          /\ le.key.fontFace # "nullptr"
          /\ le.entry.shadingType # ShadingDefault
          /\ ~le.entry.shadingType.ligatureMarker
          /\ ~EntryIsLigature(le)
    /\ \E le \in RasterizedEntries :
          /\ le.entry.shadingType = ShadingDefault
          /\ le.entry.size.y = 0
          /\ EntryIsLigature(le)

(***************************************************************************)
(* C15: when the text pass of a frame is over, skipForegroundBitmapUpload  *)
(* is true if and only if no text quad emitted in the text pass of that    *)
(* frame carried the LigatureMarker flag, the quads that a retry has       *)
(* flushed before it reset the atlas included.                             *)
(***************************************************************************)
C15_SkipForegroundUpload ==
    (TextPassOver /\ pc # "idle" /\ ~backend.thrown) =>
        (backend.skipForegroundBitmapUpload
            <=> \A i \in 1 .. Len(TextQuads) : ~TextQuads[i].shadingType.ligatureMarker)

\* The text pass is over after a reset in this frame: the only text quad
\* with the flag was flushed by the retry, the quads emitted after the reset
\* have no flag, and skipForegroundBitmapUpload is false.
C15_Witness ==
    /\ TextPassOver /\ pc # "idle"
    /\ backend.resetsInFrame > 0
    /\ ~backend.skipForegroundBitmapUpload
    /\ \E i \in 1 .. Len(backend.drawn) :
          /\ IsTextQuad(backend.drawn[i].quad)
          /\ backend.drawn[i].quad.shadingType.ligatureMarker
    /\ \E i \in 1 .. Len(backend.instances) : IsTextQuad(backend.instances[i])
    /\ \A i \in 1 .. Len(backend.instances) :
          ~backend.instances[i].shadingType.ligatureMarker

(***************************************************************************)
(* The selection of the rows of a frame, as the specification describes    *)
(* what is drawn for it: one quad per maximal block of consecutive rows    *)
(* that share one non-empty selection.                                     *)
(***************************************************************************)
HasSelection(row) == row.selectionTo > row.selectionFrom

SameSelection(a, c) ==
    a.selectionFrom = c.selectionFrom /\ a.selectionTo = c.selectionTo

\* The last row (counted from 0) of the block that row i is in.
RECURSIVE SelectionBlockEnd(_, _)
SelectionBlockEnd(rows, i) ==
    IF i + 1 < Len(rows) /\ SameSelection(rows[i + 1], rows[i + 2])
    THEN SelectionBlockEnd(rows, i + 1) ELSE i

\* The quads of the blocks that start at row i or below it.
RECURSIVE SelectionBlockQuads(_, _)
SelectionBlockQuads(p, i) ==
    IF i >= Len(p.rows) THEN <<>>
    ELSE LET row == p.rows[i + 1]
             j == SelectionBlockEnd(p.rows, i)
         IN  IF HasSelection(row)
             THEN <<SolidFill(XY(row.selectionFrom * Font.cellSize.x, i * Font.cellSize.y),
                              XY((row.selectionTo - row.selectionFrom) * Font.cellSize.x,
                                 (j - i + 1) * Font.cellSize.y),
                              p.selectionColor, "selection")>>
                  \o SelectionBlockQuads(p, j + 1)
             ELSE SelectionBlockQuads(p, i + 1)

IsSelectionQuad(q) == q.phase = "selection"

(***************************************************************************)
(* C16: once the selection pass has run, the quads it has produced are     *)
(* exactly one SolidFill quad per maximal block of consecutive rows i..j   *)
(* with the same non-empty selection (from, to), at (from * cellSize.x,    *)
(* i * cellSize.y), (to - from) * cellSize.x wide and (j - i + 1) *        *)
(* cellSize.y high; rows with selectionTo <= selectionFrom produce none.   *)
(***************************************************************************)
C16_OneQuadPerSelectionBlock ==
    pc = "flush" =>
        SelectSeq(backend.instances, IsSelectionQuad) = SelectionBlockQuads(payload, 0)

(***************************************************************************)
(* The spans of a flush: span k of N + 1 ends at the offset of marker k,   *)
(* the last one at the number of quads, and starts where span k - 1 ends.  *)
(***************************************************************************)
SpanEnd(s, k) ==
    IF k <= Len(s.instancesStateChanges)
    THEN s.instancesStateChanges[k].offset ELSE Len(s.instances)

SpanStart(s, k) == IF k = 1 THEN 0 ELSE SpanEnd(s, k - 1)

IsNonEmptyCall(c) == c.instanceCount # 0

\* One call per span, for the spans that hold a quad.
SpanCalls(s) ==
    SelectSeq([k \in 1 .. Len(s.instancesStateChanges) + 1 |->
                  DrawCall(6, SpanEnd(s, k) - SpanStart(s, k), 0, 0, SpanStart(s, k))],
              IsNonEmptyCall)

(***************************************************************************)
(* C17: the flush at the end of Render of C > 0 quads with N recorded      *)
(* markers considers N + 1 spans, the markers plus a sentinel at offset C, *)
(* which are contiguous and cover [0, C); it issues one                    *)
(* DrawIndexedInstanced(6, count, 0, 0, start) per span that holds a quad  *)
(* and none for a span without quads, so that every quad is drawn once and *)
(* in the order of emission; afterwards no quad and no marker is left.     *)
(***************************************************************************)
C17_FlushSpans ==
    [][(pc = "flush" /\ backend.instances # <<>>) =>
          /\ \A k \in 1 .. Len(backend.instancesStateChanges) + 1 :
                SpanStart(backend, k) <= SpanEnd(backend, k)
          /\ backend'.drawCalls = backend.drawCalls \o SpanCalls(backend)
          /\ DrawnQuads' = DrawnQuads \o backend.instances
          /\ backend'.instances = <<>>
          /\ backend'.instancesStateChanges = <<>>]_vars

\* A flush of a frame with an inverting cursor and no selection is over: of
\* the three spans of its two markers the first two were drawn with one
\* call each, and the last one, which held no quad, with none.
C17_Witness ==
    /\ pc = "present"
    /\ IsAutoColor(payload.cursorColor) /\ ~CursorRectEmpty(payload.cursorRect)
    /\ Len(backend.drawCalls) = 2
    /\ backend.drawCalls[2].startInstanceLocation = backend.drawCalls[1].instanceCount
    /\ Len(backend.drawn) = backend.drawCalls[1].instanceCount
                                + backend.drawCalls[2].instanceCount
    /\ backend.instances = <<>> /\ backend.instancesStateChanges = <<>>

(***************************************************************************)
(* The places of the quads of cursor Part 2 among the pending quads.       *)
(***************************************************************************)
Part2Indices == {i \in 1 .. Len(backend.instances) : backend.instances[i].phase = "cursor2"}

\* The pending quads before the first quad of Part 2, and up to its last.
BeforePart2 == CHOOSE i \in Part2Indices : \A j \in Part2Indices : i <= j

UpToPart2 == CHOOSE i \in Part2Indices : \A j \in Part2Indices : i >= j

(***************************************************************************)
(* C18: no marker is recorded before cursor Part 2 has run.  Once it has   *)
(* run for a cursor that is not empty and whose color is 0xffffffff,       *)
(* exactly two markers are recorded: the invert blend state at the offset  *)
(* of the first quad of Part 2 and the standard blend state at the offset  *)
(* just after its last quad.  For any other color and for an empty cursor  *)
(* no marker is recorded.                                                  *)
(***************************************************************************)
C18_CursorMarkers ==
    /\ pc \in {"cursor1", "text", "row", "mapping", "textEnd", "gridlines", "cursor2"} =>
          backend.instancesStateChanges = <<>>
    /\ pc \in {"selection", "flush"} =>
          IF IsAutoColor(payload.cursorColor) /\ ~CursorRectEmpty(payload.cursorRect)
          THEN /\ Part2Indices # {}
               /\ backend.instancesStateChanges =
                     <<[blendState |-> "blendStateInvert", offset |-> BeforePart2 - 1],
                       [blendState |-> "blendState", offset |-> UpToPart2]>>
               /\ Part2Indices = BeforePart2 .. UpToPart2
          ELSE backend.instancesStateChanges = <<>>

\* Part 2 has run for an inverting cursor of several quads, which follow
\* the quads of Part 1, and both markers are recorded.
C18_Witness ==
    /\ pc = "selection"
    /\ IsAutoColor(payload.cursorColor)
    /\ Cardinality(Part2Indices) > 2
    /\ BeforePart2 > 2
    /\ Len(backend.instancesStateChanges) = 2
    /\ backend.instancesStateChanges[1].offset < backend.instancesStateChanges[2].offset

(***************************************************************************)
(* The cells under the cursor and the edges of an EmptyBox cursor over the *)
(* run of cells [x0, x1), as position and size.                            *)
(***************************************************************************)
\* The cells after which the opacified background color changes.
ColorChanges(p) ==
    {x \in p.cursorRect.left + 1 .. p.cursorRect.right - 1 :
        OpaqueBackground(p, x - 1) # OpaqueBackground(p, x)}

Edge(x, y, w, h) == [position |-> XY(x, y), size |-> XY(w, h)]

TopEdge(p, x0, x1) ==
    Edge(x0 * Font.cellSize.x, p.cursorRect.top * Font.cellSize.y,
         (x1 - x0) * Font.cellSize.x, Font.thinLineWidth)

BottomEdge(p, x0, x1) ==
    Edge(x0 * Font.cellSize.x,
         p.cursorRect.top * Font.cellSize.y + Font.cellSize.y - Font.thinLineWidth,
         (x1 - x0) * Font.cellSize.x, Font.thinLineWidth)

LeftEdge(p, x0) ==
    Edge(x0 * Font.cellSize.x, p.cursorRect.top * Font.cellSize.y + Font.thinLineWidth,
         Font.thinLineWidth, Font.cellSize.y - 2 * Font.thinLineWidth)

RightEdge(p, x1) ==
    Edge(x1 * Font.cellSize.x - Font.thinLineWidth,
         p.cursorRect.top * Font.cellSize.y + Font.thinLineWidth,
         Font.thinLineWidth, Font.cellSize.y - 2 * Font.thinLineWidth)

\* The rectangles that Part 1 has computed, without their colors.
CursorEdges ==
    [i \in 1 .. Len(backend.cursorRects) |->
        Edge(backend.cursorRects[i].position.x, backend.cursorRects[i].position.y,
             backend.cursorRects[i].size.x, backend.cursorRects[i].size.y)]

\* Cursor Part 1 of the current frame has run.
AfterCursorPart1 == pc \notin {"idle", "cursor1"}

(***************************************************************************)
(* C19: for an EmptyBox cursor that spans 3 cells whose background color   *)
(* changes once inside the span, after cell k - 1, cursor Part 1 forms     *)
(* exactly the 2 runs [left, k) and [k, right): each contributes a top and *)
(* a bottom thin edge, only the first the left vertical edge and only the  *)
(* second the right vertical edge.                                         *)
(***************************************************************************)
C19_EmptyBoxTwoRuns ==
    (/\ AfterCursorPart1
     /\ payload.cursorType = "EmptyBox"
     /\ payload.cursorRect.right - payload.cursorRect.left = 3
     /\ Cardinality(ColorChanges(payload)) = 1) =>
        LET k == CHOOSE x \in ColorChanges(payload) : TRUE
            left == payload.cursorRect.left
            right == payload.cursorRect.right
        IN  CursorEdges = <<TopEdge(payload, left, k), BottomEdge(payload, left, k),
                            LeftEdge(payload, left),
                            TopEdge(payload, k, right), BottomEdge(payload, k, right),
                            RightEdge(payload, right)>>

(***************************************************************************)
(* The quads of the two cursor passes of the frame, in emission order.     *)
(***************************************************************************)
IsPart1Quad(q) == q.phase = "cursor1"

IsPart2Quad(q) == q.phase = "cursor2"

Part1Quads == SelectSeq(FrameQuads, IsPart1Quad)

Part2Quads == SelectSeq(FrameQuads, IsPart2Quad)

\* The rectangles of a sequence of quads, without their colors.
QuadEdges(quads) ==
    [i \in 1 .. Len(quads) |->
        Edge(quads[i].position.x, quads[i].position.y, quads[i].size.x, quads[i].size.y)]

\* The opacified background color of the cell that holds the left edge of q.
BackgroundUnder(q) == OpaqueBackground(payload, q.position.x \div Font.cellSize.x)

\* q lies on the cells of the cursor of the current frame.
OnCursor(q) ==
    /\ q.position.x >= payload.cursorRect.left * Font.cellSize.x
    /\ q.position.x + q.size.x <= payload.cursorRect.right * Font.cellSize.x
    /\ q.position.y >= payload.cursorRect.top * Font.cellSize.y
    /\ q.position.y + q.size.y <= payload.cursorRect.bottom * Font.cellSize.y

(***************************************************************************)
(* C20: the rectangles that cursor Part 2 emits are those that Part 1 of   *)
(* the same frame has computed, in the same order.  With the cursor color  *)
(* 0xffffffff Part 1 emits each of them as a SolidFill quad colored        *)
(* (background of its run | 0xff000000) XOR 0x3f3f3f and Part 2 emits them *)
(* with the color 0xffffffff; with any other color Part 1 emits no quad    *)
(* and Part 2 emits them with the configured color.  No rectangle of an    *)
(* earlier frame is emitted: the rectangles lie on the cursor of the       *)
(* current frame, and an empty cursor has none.                            *)
(***************************************************************************)
C20_Part2EmitsPart1Rects ==
    /\ AfterCursorPart1 =>
          /\ IF IsAutoColor(payload.cursorColor)
             THEN /\ QuadEdges(Part1Quads) = CursorEdges
                  /\ \A i \in 1 .. Len(Part1Quads) :
                        /\ Part1Quads[i].shadingType = ShadingSolidFill
                        /\ Part1Quads[i].color = Xor3f3f3f(BackgroundUnder(Part1Quads[i]))
             ELSE Part1Quads = <<>>
          /\ \A i \in 1 .. Len(backend.cursorRects) : OnCursor(backend.cursorRects[i])
          /\ CursorRectEmpty(payload.cursorRect) <=> backend.cursorRects = <<>>
    /\ pc \in {"idle", "cursor1", "text", "row", "mapping", "textEnd", "gridlines", "cursor2"} =>
          (pc = "idle" \/ Part2Quads = <<>>)
    /\ pc \in {"selection", "flush", "present"} =>
          /\ QuadEdges(Part2Quads) = CursorEdges
          /\ \A i \in 1 .. Len(Part2Quads) :
                /\ Part2Quads[i].shadingType = ShadingSolidFill
                /\ Part2Quads[i].color = payload.cursorColor

\* In the second frame the cursor inverts and is three cells wide over two
\* background colors; Part 2 has emitted the rectangles of Part 1.
C20_Witness ==
    /\ frame = 2
    /\ pc = "selection"
    /\ IsAutoColor(payload.cursorColor)
    /\ payload.cursorRect.right - payload.cursorRect.left = 3
    /\ Len(Part2Quads) > 2
    /\ Len(Part1Quads) = Len(Part2Quads)
    /\ \E i, j \in 1 .. Len(Part1Quads) : Part1Quads[i].color # Part1Quads[j].color

(***************************************************************************)
(* C21: in a frame whose settings sync finds that the user's custom pixel  *)
(* shader does not compile, warningCallback is called once when it is set  *)
(* (and nothing is called when it is not), no custom pixel shader is       *)
(* installed and the post-process pass is not run, nothing is thrown, and  *)
(* the frame that has returned to the caller has been presented.           *)
(***************************************************************************)
C21_CompileFailureContinues ==
    backend.compileFailed =>
        /\ backend.warnings = (IF payload.warningCallback THEN 1 ELSE 0)
        /\ ~backend.customPixelShader
        /\ ~backend.postProcessed
        /\ pc # "customShader"
        /\ ~backend.thrown
        /\ pc = "idle" => backend.presented

\* The second frame, whose changed settings name a shader that does not
\* compile besides the retro effect, has called the warningCallback and has
\* been presented.
C21_Witness ==
    /\ backend.compileFailed
    /\ payload.warningCallback
    /\ payload.useRetroTerminalEffect
    /\ backend.warnings = 1
    /\ backend.presented
    /\ pc = "idle"
    /\ frame = 2

(***************************************************************************)
(* C22: when a frame has been aborted by a propagated error, the next call *)
(* of Render finds an empty quad stream, an empty list of state changes    *)
(* and the vector device not drawing, and no quad appended by the aborted  *)
(* frame is drawn by a later frame.                                        *)
(***************************************************************************)
C22_AbortedFrameDiscarded ==
    /\ (pc = "idle" /\ backend.thrown) =>
          /\ backend.instances = <<>>
          /\ backend.instancesStateChanges = <<>>
          /\ ~backend.d2dBeganDrawing
    /\ (frame > 1 /\ pc = "cursor1") => Len(backend.instances) = 1

(***************************************************************************)
(* C23: a settings sync rebuilds each resource for its own mismatch only   *)
(* and then records the payload's values.  The font dependents are updated *)
(* iff the font generation changed, and then, and only then, the text pass *)
(* begins with an atlas reset, so that every text quad of the frame has    *)
(* the shading type of the payload's antialiasing mode; the custom shader  *)
(* is recreated iff the misc generation changed, the color bitmap iff the  *)
(* cell count changed; afterwards the cached generations and cell count    *)
(* are the payload's.                                                      *)
(***************************************************************************)
ShadingTypeOf(mode) == IF mode = "ClearType" THEN "TextClearType" ELSE "TextGrayscale"

\* The font face of the mapping that the glyph of the text quad q is in.
QuadFontFace(q) ==
    LET row == payload.rows[q.src.y + 1]
        mi == CHOOSE i \in 1 .. Len(row.mappings) :
                  row.mappings[i].glyphsFrom <= q.src.x /\ q.src.x < row.mappings[i].glyphsTo
    IN  row.mappings[mi].fontFace

C23_SyncPerMismatch ==
    frame > 0 =>
        LET fontChanged == backend.before.fontGeneration # payload.fontGeneration
            miscChanged == backend.before.miscGeneration # payload.miscGeneration
            cellCountChanged == backend.before.cellCount # payload.cellCount
            quads == FrameQuads
        IN  /\ backend.fontDependentsUpdates = (IF fontChanged THEN 1 ELSE 0)
            /\ backend.customShaderRecreations = (IF miscChanged THEN 1 ELSE 0)
            /\ backend.colorBitmapRecreations = (IF cellCountChanged THEN 1 ELSE 0)
            /\ backend.generation = payload.generation
            /\ backend.fontGeneration = payload.fontGeneration
            /\ backend.miscGeneration = payload.miscGeneration
            /\ backend.cellCount = payload.cellCount
            /\ backend.colorBitmapSize = XY(payload.cellCount.x, payload.cellCount.y * 2)
            /\ pc \in {"cursor1", "text"} => (backend.fontChangedResetGlyphAtlas <=> fontChanged)
            /\ (pc = "row" /\ textY = 0) =>
                  /\ backend.justReset <=> fontChanged
                  /\ fontChanged => LiveEntries(backend.glyphAtlasMap) = {}
                  /\ ~backend.fontChangedResetGlyphAtlas
            /\ \A i \in 1 .. Len(quads) :
                  IsTextQuad(quads[i]) =>
                      quads[i].shadingType.type =
                          IF QuadFontFace(quads[i]) = "nullptr" THEN "TextGrayscale"
                          ELSE ShadingTypeOf(payload.antialiasingMode)

\* In the second frame only the font settings have changed, to the other
\* antialiasing mode: the text pass has reset the atlas and has emitted a
\* quad of a glyph that the first frame had rasterized.
C23_Witness ==
    /\ frame = 2
    /\ backend.before.fontGeneration # payload.fontGeneration
    /\ backend.before.miscGeneration = payload.miscGeneration
    /\ backend.before.cellCount = payload.cellCount
    /\ payload.antialiasingMode = "Grayscale"
    /\ backend.textShadingType.type = "TextGrayscale"
    /\ backend.resetsInFrame = 0
    /\ \E i \in 1 .. Len(backend.instances) :
          /\ IsTextQuad(backend.instances[i])
          /\ backend.instances[i].shadingType.type = "TextGrayscale"
          /\ QuadFontFace(backend.instances[i]) # "nullptr"

(***************************************************************************)
(* C24: _resetGlyphAtlas computes area = min(maxDeviceArea,                *)
(* min(viewportArea * 1.25, max(128 * 128, 95 * cellArea,                  *)
(* 2 * currentAtlasArea))) and chooses u and v that are powers of two with *)
(* v <= u <= 2 * v and u * v the smallest power of two that is >= area.    *)
(***************************************************************************)
IsPowerOfTwo(n) == \E k \in 0 .. 30 : n = Pow2(k)

SmallestPowerOfTwoAtLeast(n) ==
    Pow2(CHOOSE k \in 0 .. 30 : Pow2(k) >= n /\ (k = 0 \/ Pow2(k - 1) < n))

ClaimedArea(c) ==
    LET cellArea == c.cellSize.x * c.cellSize.y
        viewportArea == c.targetSize.x * c.targetSize.y
        currentAtlasArea == c.width * c.height
    IN  Min(D3D10_REQ_TEXTURE2D_U_OR_V_DIMENSION * D3D10_REQ_TEXTURE2D_U_OR_V_DIMENSION,
            Min((viewportArea * 5) \div 4,
                Max(128 * 128, Max(95 * cellArea, 2 * currentAtlasArea))))

C24_AtlasDimensions ==
    (call.function = "resetGlyphAtlas" /\ call.returned) =>
        /\ call.area = ClaimedArea(call)
        /\ IsPowerOfTwo(call.u) /\ IsPowerOfTwo(call.v)
        /\ call.v <= call.u /\ call.u <= 2 * call.v
        /\ call.u * call.v = SmallestPowerOfTwoAtLeast(call.area)

MaxStreamQuads == 520

\* The doublings of the first allocation that are told apart.
MaxDoublings == 3

\* The n-th quad that is pushed, numbered from 0 in `src`.
StreamQuad(n) ==
    Quad(ShadingSolidFill, XY(0, 0), XY(1, 1), XY(0, 0), Color(0, 0), "stream", [y |-> 0, x |-> n])

\* Some pass of Render appends one quad.
AppendQuad_Pass ==
    /\ Len(backend.instances) < MaxStreamQuads
    /\ backend' = appendQuad(Step(backend), StreamQuad(backend.appended))
    /\ UNCHANGED <<payload, pc, frame, textLocals, call, watcher, steady_clock, dirty>>

\* _flushQuads, once the passes have appended their quads.
FlushQuads_Pass ==
    /\ Len(backend.instances) = MaxStreamQuads
    /\ backend.drawn = <<>>
    /\ backend' = flushQuads(Step(backend), payload)
    /\ UNCHANGED <<payload, pc, frame, textLocals, call, watcher, steady_clock, dirty>>

NextQuadStream ==
    \/ AppendQuad_Pass
    \/ FlushQuads_Pass

QuadStreamSpec == Init /\ [][NextQuadStream]_vars

\* C26: the size of the quad stream's storage is 0 or 256 doubled some number
\* of times, the number of pushed quads never exceeds it, the quads pushed
\* since the last flush are all in the stream in the order of their pushes
\* (a growth loses none), and the quad pushed last is the element at index
\* count - 1.
C26_QuadStreamGrowth ==
    LET count == Len(backend.instances)
        flushed == Len(backend.drawn)
    IN  /\ backend.instancesSize \in {0} \cup {256 * 2 ^ k : k \in 0 .. MaxDoublings}
        /\ count <= backend.instancesSize
        /\ count = backend.appended - flushed
        /\ \A i \in 0 .. count - 1 : backend.instances[i + 1] = StreamQuad(flushed + i)
        /\ count > 0 => backend.instances[(count - 1) + 1] = StreamQuad(backend.appended - 1)

\* The push of the 513th quad has doubled the storage a second time.
C26_Witness ==
    /\ backend.instancesSize = 1024
    /\ Len(backend.instances) = 513
    /\ backend.instances[513] = StreamQuad(512)

(***************************************************************************)
(* The instance buffer: _flushQuads and _recreateInstanceBuffers over      *)
(* frames of many quads.                                                   *)
(***************************************************************************)
\* The frames rendered.
MaxBufferFrames == 3

\* The numbers of quads that the passes of a frame append: one, and one more
\* than the 2048 and the 4096 quads that fit into 64 kB and 128 kB.
QuadCounts == {1, 2049, 4097}

\* The viewports: 6 cells, and 2400 cells, which need more than 64 kB.
ViewportCellCounts == {XY(2, 3), XY(80, 30)}

\* The size of the quad stream's storage once it holds `count` quads:
\* _bumpInstancesSize, called by _appendQuad each time the storage is full.
RECURSIVE GrownInstancesSize(_, _)
GrownInstancesSize(size, count) ==
    IF count <= size THEN size ELSE GrownInstancesSize(Max(256, size * 2), count)

\* n calls of _appendQuad, taken together.
AppendQuads(s, n) ==
    [s EXCEPT !.instancesSize = GrownInstancesSize(@, Len(s.instances) + n),
              !.instances = @ \o [i \in 1 .. n |-> StreamQuad(s.appended + i - 1)],
              !.appended = @ + n]

\* A call of Render whose passes append n quads, up to its _flushQuads.
Render_BeginQuads ==
    /\ pc = "idle"
    /\ frame < MaxBufferFrames
    /\ \E n \in QuadCounts, cellCount \in ViewportCellCounts :
          /\ payload' = [payload EXCEPT !.cellCount = cellCount]
          /\ backend' = AppendQuads([Step(backend) EXCEPT !.drawn = <<>>, !.drawCalls = <<>>,
                                                          !.appended = 0, !.presented = FALSE],
                                    n)
    /\ frame' = frame + 1
    /\ pc' = "flush"
    /\ UNCHANGED <<textLocals, call, watcher, steady_clock, dirty>>

NextInstanceBuffer ==
    \/ Render_BeginQuads
    \/ FlushQuads
    \/ Present

InstanceBufferSpec == Init /\ [][NextInstanceBuffer]_vars

\* C27: the quads that a flush copies into the instance buffer never number
\* more than the buffer's capacity; the buffer's size in bytes is a multiple
\* of 64 kB that holds at least max(quad count, cellCount.x * cellCount.y)
\* quads of the flush that created it; and no step decreases the capacity.
C27_InstanceBufferCapacity ==
    /\ [](/\ backend.uploaded.count <= backend.uploaded.capacity
          /\ backend.instanceBufferByteWidth % 65536 = 0
          /\ backend.instanceBufferByteWidth
                >= Max(backend.recreatedFor.count, backend.recreatedFor.minCapacity)
                      * SizeofQuadInstance
          /\ backend.instanceBufferCapacity
                = backend.instanceBufferByteWidth \div SizeofQuadInstance)
    /\ [][backend'.instanceBufferCapacity >= backend.instanceBufferCapacity]_vars

\* The third frame has 4097 quads in a viewport of 6 cells: the buffer of
\* the earlier frames was too small and has been recreated with 3 * 64 kB,
\* which hold 6144 quads.
C27_Witness ==
    /\ backend.recreatedFor = [count |-> 4097, minCapacity |-> 6]
    /\ backend.uploaded = [count |-> 4097, capacity |-> 6144]
    /\ backend.instanceBufferByteWidth = 3 * 65536
    /\ frame = 3

(***************************************************************************)
(* The debug build: the callback of _sourceCodeWatcher on the watcher      *)
(* thread and _debugUpdateShaders on the render thread, one access of      *)
(* _sourceCodeInvalidationTime or of the clock at a time.                  *)
(***************************************************************************)
\* The callbacks for a .hlsl file that are followed.
MaxNotifications == 2

\* The last time at which the clock is read.
MaxClock == 200

\* The clock advances in steps of 50 ms.
ClockTick == 50

\* std::chrono::milliseconds(100) of the callback.
InvalidationDelay == 100

\* The files of the source directory that change.
WatchedPaths == {"shader_ps.hlsl", "BackendD3D.cpp"}

\* til::ends_with(path, L".hlsl")
EndsWithHlsl(path) == path = "shader_ps.hlsl"

\* A plain store in place of the compare-and-swap: the fault that
\* C28_InvalidationHandshake must detect.
exchange(value, expected, desired) == desired

\* std::atomic<int64_t>::compare_exchange_strong: the value the atomic holds
\* afterwards.
compare_exchange_strong(value, expected, desired) ==
    IF value = expected THEN desired ELSE value

\* Time passes.
Tick ==
    /\ steady_clock < MaxClock
    /\ steady_clock' = steady_clock + ClockTick
    /\ UNCHANGED <<backend, payload, pc, frame, textLocals, call, watcher, dirty>>

\* The folder change reader calls the callback: up to the computation of
\* invalidationTime.
SourceCodeWatcher_Callback ==
    /\ watcher.pc = "idle"
    /\ watcher.notified < MaxNotifications
    /\ steady_clock + InvalidationDelay <= MaxClock
    /\ \E path \in WatchedPaths :
          watcher' = IF EndsWithHlsl(path)
                     THEN [watcher EXCEPT
                              !.pc = "compare_exchange",
                              !.invalidationTime = steady_clock + InvalidationDelay,
                              !.notified = @ + 1,
                              !.deadlines = @ \cup {steady_clock + InvalidationDelay}]
                     ELSE watcher
    /\ UNCHANGED <<backend, payload, pc, frame, textLocals, call, steady_clock, dirty>>

\* _sourceCodeInvalidationTime.compare_exchange_strong(expected, ...) with
\* expected = INT64_MAX, and the return of the callback.
SourceCodeWatcher_CompareExchange ==
    /\ watcher.pc = "compare_exchange"
    /\ backend' = [backend EXCEPT !.sourceCodeInvalidationTime =
                      compare_exchange_strong(@, INT64_MAX, watcher.invalidationTime)]
    /\ watcher' = [watcher EXCEPT !.pc = "idle"]
    /\ UNCHANGED <<payload, pc, frame, textLocals, call, steady_clock, dirty>>

\* A call of Render in the debug build, with the payload of the frame before:
\* up to the load of _sourceCodeInvalidationTime in _debugUpdateShaders. The
\* frames are counted up to MaxFrames + 1.
Render_BeginDebug ==
    /\ pc = "idle"
    /\ backend' = BeginFrame(backend)
    /\ call' = [function |-> "debugUpdateShaders",
                invalidationTime |-> backend.sourceCodeInvalidationTime]
    /\ frame' = Min(frame + 1, MaxFrames + 1)
    /\ pc' = "debugLoaded"
    /\ UNCHANGED <<payload, textLocals, watcher, steady_clock, dirty>>

\* if (invalidationTime == INT64_MAX || invalidationTime > now) return;
DebugUpdateShaders_Compare ==
    /\ pc = "debugLoaded"
    /\ IF call.invalidationTime = INT64_MAX \/ call.invalidationTime > steady_clock
       THEN pc' = "debugDone" /\ call' = NoCall
       ELSE pc' = "debugStore" /\ call' = call
    /\ UNCHANGED <<backend, payload, frame, textLocals, watcher, steady_clock, dirty>>

\* _sourceCodeInvalidationTime.store(INT64_MAX)
DebugUpdateShaders_Store ==
    /\ pc = "debugStore"
    /\ backend' = [backend EXCEPT !.sourceCodeInvalidationTime = INT64_MAX]
    /\ pc' = "debugCompile"
    /\ UNCHANGED <<payload, frame, textLocals, call, watcher, steady_clock, dirty>>

\* The compilation of the shader files begins and _debugUpdateShaders
\* returns, with new shaders or with the logged error; compiledNotifications
\* records the callbacks that had begun before.
DebugUpdateShaders_Compile ==
    /\ pc = "debugCompile"
    /\ backend' = [backend EXCEPT !.shaderCompiles = @ + 1,
                                  !.compiledNotifications = watcher.notified]
    /\ call' = NoCall
    /\ pc' = "debugDone"
    /\ UNCHANGED <<payload, frame, textLocals, watcher, steady_clock, dirty>>

\* Render after _debugUpdateShaders, up to and including _drawBackground.
Render_AfterDebug ==
    /\ pc = "debugDone"
    /\ backend' = drawBackground(Step(backend), payload)
    /\ pc' = "cursor1"
    /\ UNCHANGED <<payload, frame, textLocals, call, watcher, steady_clock, dirty>>

NextDebug ==
    \/ Tick
    \/ SourceCodeWatcher_Callback
    \/ SourceCodeWatcher_CompareExchange
    \/ Render_BeginDebug
    \/ DebugUpdateShaders_Compare
    \/ DebugUpdateShaders_Store
    \/ DebugUpdateShaders_Compile
    \/ Render_AfterDebug
    \/ DrawCursorPart1
    \/ DrawText_Begin
    \/ DrawText_Row
    \/ DrawText_End
    \/ DrawGridlines
    \/ DrawCursorPart2
    \/ DrawSelection
    \/ FlushQuads
    \/ Present

DebugSpec == Init /\ [][NextDebug]_vars

\* A step of the render thread, seen through pc: every step of Render moves
\* pc, and so does the call of Render for the next frame.
RenderThreadStep == pc' \in PcValues \cup {"debugLoaded", "debugStore", "debugCompile", "debugDone"} /\ pc' # pc

\* Frames keep being rendered, the clock keeps advancing up to MaxClock, and
\* a callback that has begun runs to its end.
FairDebugSpec ==
    /\ DebugSpec
    /\ WF_pc(RenderThreadStep)
    /\ WF_steady_clock(Tick)
    /\ WF_watcher(SourceCodeWatcher_CompareExchange)

\* C28: _sourceCodeInvalidationTime always holds INT64_MAX or a deadline
\* that a callback computed; the compare-and-swap of a callback that finds a
\* deadline pending leaves it unchanged; and every callback for a .hlsl file
\* is followed by the start of a compilation that began after the callback
\* did.
C28_InvalidationHandshake ==
    /\ [](backend.sourceCodeInvalidationTime \in {INT64_MAX} \cup watcher.deadlines)
    /\ [][(/\ watcher.pc = "compare_exchange"
           /\ watcher'.pc = "idle"
           /\ backend.sourceCodeInvalidationTime # INT64_MAX)
          => backend'.sourceCodeInvalidationTime = backend.sourceCodeInvalidationTime]_vars
    /\ \A k \in 1 .. MaxNotifications :
          (watcher.notified >= k) ~> (backend.compiledNotifications >= k)

\* Two callbacks computed two deadlines, the second while the first was
\* pending, and one compilation that began after both has served them.
C28_Witness ==
    /\ watcher.pc = "idle"
    /\ watcher.notified = 2
    /\ Cardinality(watcher.deadlines) = 2
    /\ backend.shaderCompiles = 1
    /\ backend.compiledNotifications = 2
    /\ backend.sourceCodeInvalidationTime = INT64_MAX

(***************************************************************************)
(* The dirty spans of the text pass: frames whose caller repaints some of  *)
(* the rows.                                                               *)
(***************************************************************************)
\* The rows of these frames: one without glyphs, one of letters that stay
\* inside their cell row, and one whose letter is raised by 30 pixels
\* (ascenderOffset is in half pixels) and so begins above its cell row.
DirtyRowKinds ==
    { ShapedRow("SingleWidth", <<>>, <<>>, <<>>, <<>>, <<>>, 0, 0),
      ShapedRow("SingleWidth", <<65, 66, 8212>>, <<128, 128, 256>>,
                <<NoOffset, NoOffset, NoOffset>>,
                <<Mapping("face", 0, 3)>>, <<>>, 0, 0),
      ShapedRow("SingleWidth", <<65>>, <<128>>, <<GlyphOffset(0, 60)>>,
                <<Mapping("face", 0, 1)>>, <<>>, 0, 0) }

DirtyRowSeqs == UNION {SeqsOfLength(DirtyRowKinds, n) : n \in 1 .. MaxRows}

\* The ranges invalidatedRows over the rows 0 .. n - 1, the empty ones too.
RowRanges(n) == {[start |-> a, end |-> b] : a \in 0 .. n, b \in 0 .. n}

\* The dirty spans that the rows have on entry: the cell row of each, or
\* 40 pixels more on either side, left over from an earlier frame.
RowSpans(n) ==
    {[i \in 1 .. n |-> Span(CellRowSpan(i - 1).top - margin, CellRowSpan(i - 1).bottom + margin)] :
        margin \in {0, 40}}

\* dirtyRectInPx on entry: nothing, the first cell row, or the second one.
DirtyRects == {Span(CoordTypeMax, CoordTypeMin), CellRowSpan(0), CellRowSpan(1)}

DirtyPayloads ==
    {Payload(1, 1, XY(200, 200), rows,
             CHOOSE c \in CursorKinds : CursorRectEmpty(c.cursorRect), "") :
        rows \in DirtyRowSeqs}

\* A call of Render for a frame of text of which the caller repaints the
\* rows of invalidatedRows; the frame after it has the same rows, with the
\* spans and the rect that the frame before left.
Render_BeginDirty ==
    /\ pc = "idle"
    /\ frame < MaxFrames
    /\ IF frame = 0
       THEN \E p \in DirtyPayloads :
               \E spans \in RowSpans(Len(p.rows)), range \in RowRanges(Len(p.rows)),
                  rect \in DirtyRects :
                     RenderBeginPaint(p, Paint(spans, range, rect))
       ELSE RenderBeginPaint(payload,
                             Paint(dirty.rows, dirty.invalidatedRows, dirty.dirtyRectInPx))
    /\ UNCHANGED <<call, watcher, steady_clock>>

NextDirty ==
    \/ Render_BeginDirty
    \/ DrawCursorPart1
    \/ DrawText_Begin
    \/ DrawText_Row
    \/ DrawText_Mapping
    \/ DrawText_Retry
    \/ DrawText_Glyph
    \/ DrawText_RunDone
    \/ DrawText_End
    \/ DrawGridlines
    \/ DrawCursorPart2
    \/ DrawSelection
    \/ FlushQuads
    \/ Present

DirtySpec == Init /\ [][NextDirty]_vars

\* The text pass of the frame has returned.
TextPassDone ==
    \/ pc \in {"gridlines", "cursor2", "selection", "flush", "customShader", "present"}
    \/ pc = "idle" /\ backend.presented

\* The rows of the frame that invalidatedRows names.
InvalidatedRowsOf(d) ==
    {i \in 1 .. Len(d.rows) : d.invalidatedRows.start <= i - 1 /\ i - 1 < d.invalidatedRows.end}

\* The least dirtyTop and the greatest dirtyBottom of the rows in I.
LeastTop(d, I) ==
    IF I = {} THEN CoordTypeMax
    ELSE CHOOSE v \in {d.rows[i].top : i \in I} : \A i \in I : v <= d.rows[i].top

GreatestBottom(d, I) ==
    IF I = {} THEN CoordTypeMin
    ELSE CHOOSE v \in {d.rows[i].bottom : i \in I} : \A i \in I : v >= d.rows[i].bottom

\* dirtyRectInPx after the text pass, from the rows in invalidatedRows alone.
WidenedBy(d) ==
    LET T == LeastTop(d, InvalidatedRowsOf(d))
        B == GreatestBottom(d, InvalidatedRowsOf(d))
    IN  IF T >= B THEN d.before
        ELSE Span(Min(d.before.top, T), Max(d.before.bottom, B))

NoGlyphs(p) == \A i \in 1 .. Len(p.rows) : p.rows[i].glyphIndices = <<>>

NoTextQuad ==
    /\ \A i \in 1 .. Len(backend.drawn) : backend.drawn[i].quad.phase # "text"
    /\ \A i \in 1 .. Len(backend.instances) : backend.instances[i].phase # "text"

\* C29 as stated: after the text pass dirtyRectInPx is the rect of the entry
\* widened by the dirty spans of the rows in invalidatedRows, and a frame
\* whose rows have no glyphs has no text quad and the dirtyRectInPx of its
\* entry.
C29_NoGlyphsUnchanged ==
    TextPassDone =>
        /\ dirty.dirtyRectInPx = WidenedBy(dirty)
        /\ NoGlyphs(payload) => (NoTextQuad /\ dirty.dirtyRectInPx = dirty.before)

\* C29, amended: after the text pass dirtyRectInPx is the rect of the entry
\* widened by the dirty spans of the rows in invalidatedRows (unchanged when
\* these rows span nothing), it is never narrower than on entry, and a frame
\* whose rows have no glyphs has no text quad and leaves every row's dirty
\* span as it was, so that its dirtyRectInPx is the rect of the entry widened
\* by the spans that the rows in invalidatedRows had on entry.
C29_DirtyRectWidened ==
    TextPassDone =>
        /\ dirty.dirtyRectInPx = WidenedBy(dirty)
        /\ dirty.dirtyRectInPx.top <= dirty.before.top
        /\ dirty.dirtyRectInPx.bottom >= dirty.before.bottom
        /\ NoGlyphs(payload) => NoTextQuad

\* Of two rows the caller repaints the second, whose raised letter begins
\* above the cell row: dirtyRectInPx, the second cell row on entry, now
\* begins where that letter does; the first row, whose span begins higher
\* still, has not widened the rect.
C29_Witness ==
    /\ TextPassDone
    /\ Len(payload.rows) = 2
    /\ dirty.invalidatedRows = [start |-> 1, end |-> 2]
    /\ dirty.before = CellRowSpan(1)
    /\ dirty.rows[2].top < CellRowSpan(1).top
    /\ dirty.rows[2].top > CellRowSpan(0).top
    /\ dirty.rows[1].top = CellRowSpan(0).top
    /\ dirty.dirtyRectInPx = Span(dirty.rows[2].top, CellRowSpan(1).bottom)

(***************************************************************************)
(* DoBuffersOverlap of host/misc.cpp, on buffers in a small address space. *)
(***************************************************************************)
\* The greatest address at which a buffer begins.
MaxAddress == 6

\* The greatest size of a buffer, in bytes.
MaxBufferSize == 3

\* DoBuffersOverlap(pBufferA, cbBufferA, pBufferB, cbBufferB)
DoBuffersOverlap(pBufferA, cbBufferA, pBufferB, cbBufferB) ==
    LET pBufferAEnd == pBufferA + cbBufferA
        pBufferBEnd == pBufferB + cbBufferB
    IN  \/ pBufferA <= pBufferB /\ pBufferAEnd >= pBufferB
        \/ pBufferB <= pBufferA /\ pBufferBEnd >= pBufferA

\* The calls of DoBuffersOverlap that are about to be made.
OverlapCalls ==
    {[function |-> "DoBuffersOverlap", returned |-> FALSE, result |-> FALSE,
      pBufferA |-> a, cbBufferA |-> cbA, pBufferB |-> b, cbBufferB |-> cbB] :
        a \in 0 .. MaxAddress, cbA \in 0 .. MaxBufferSize,
        b \in 0 .. MaxAddress, cbB \in 0 .. MaxBufferSize}

InitOverlap == InitRenderer /\ call \in OverlapCalls

\* The call returns.
DoBuffersOverlap_Call ==
    /\ call.function = "DoBuffersOverlap"
    /\ ~call.returned
    /\ call' = [call EXCEPT !.returned = TRUE,
                            !.result = DoBuffersOverlap(call.pBufferA, call.cbBufferA,
                                                        call.pBufferB, call.cbBufferB)]
    /\ UNCHANGED <<backend, payload, pc, frame, textLocals, watcher, steady_clock, dirty>>

OverlapSpec == InitOverlap /\ [][DoBuffersOverlap_Call]_vars

\* The bytes of the buffer of cb bytes at p.
BytesOf(p, cb) == {i \in 0 .. MaxAddress + MaxBufferSize : p <= i /\ i < p + cb}

\* C30: DoBuffersOverlap returns true exactly when the two buffers have a
\* byte in common.
C30_TrueIffShareByte ==
    (call.function = "DoBuffersOverlap" /\ call.returned) =>
        (call.result <=>
            BytesOf(call.pBufferA, call.cbBufferA) \cap BytesOf(call.pBufferB, call.cbBufferB) # {})

(***************************************************************************)
(* The runs of cursor Part 1.                                              *)
(***************************************************************************)
\* The runs [x0, x1) with their opacified background bg that the outer loop
\* of _drawCursorPart1 forms from x1 on, in order.
RECURSIVE CursorRuns(_, _)
CursorRuns(p, x1) ==
    IF x1 >= p.cursorRect.right THEN <<>>
    ELSE LET bg == OpaqueBackground(p, x1)
             end == CursorRunEnd(p, x1, bg)
         IN  <<[x0 |-> x1, x1 |-> end, bg |-> bg]>> \o CursorRuns(p, end + 1)

\* The cells of the run r.
RunCells(r) == r.x0 .. r.x1 - 1

(***************************************************************************)
(* C31: cursor Part 1 partitions the cursor's columns: its runs [x0, x1)   *)
(* are non-empty and pairwise disjoint, every cell of a run has the run's  *)
(* opacified background color, runs that follow one another have          *)
(* different colors, and every cell of [cursorRect.left, cursorRect.right) *)
(* lies in exactly one run.                                                *)
(***************************************************************************)
C31_RunsPartitionCursor ==
    (AfterCursorPart1 /\ ~CursorRectEmpty(payload.cursorRect)) =>
        LET runs == CursorRuns(payload, payload.cursorRect.left)
        IN  /\ \A i \in 1 .. Len(runs) :
                  /\ runs[i].x0 < runs[i].x1
                  /\ \A x \in RunCells(runs[i]) : OpaqueBackground(payload, x) = runs[i].bg
            /\ \A i, j \in 1 .. Len(runs) :
                  i # j => RunCells(runs[i]) \cap RunCells(runs[j]) = {}
            /\ \A i \in 1 .. Len(runs) - 1 : runs[i].bg # runs[i + 1].bg
            /\ \A x \in payload.cursorRect.left .. payload.cursorRect.right - 1 :
                  Cardinality({i \in 1 .. Len(runs) : x \in RunCells(runs[i])}) = 1

(***************************************************************************)
(* The atlas regions of the text quads that wait in _instances.            *)
(***************************************************************************)
\* The text quad q shows a region that a live entry of the glyph atlas map
\* holds: the atlas has not been cleared since the glyph was rasterized.
RegionIsLive(q) ==
    \E le \in LiveEntries(backend.glyphAtlasMap) :
        /\ le.entry.texcoord = q.texcoord
        /\ le.entry.size = q.size
        /\ le.entry.shadingType = q.shadingType

PendingTextQuads == SelectSeq(backend.instances, IsTextQuad)

(***************************************************************************)
(* C32: every text quad that is drawn shows an atlas region rasterized in  *)
(* the atlas generation of its draw call.  A quad is drawn from _instances *)
(* by the flush that empties it, so: every text quad that waits in         *)
(* _instances shows the region of a live cache entry, and no text quad     *)
(* waits in _instances when the atlas has just been reset.                 *)
(***************************************************************************)
C32_DrawnFromCurrentAtlas ==
    /\ \A i \in 1 .. Len(PendingTextQuads) : RegionIsLive(PendingTextQuads[i])
    /\ backend.justReset => PendingTextQuads = <<>>

(***************************************************************************)
(* The render targets of the two passes: frames whose settings change the  *)
(* custom shader, the retro effect or the size of the swap chain.          *)
(***************************************************************************)
\* The frames of a run of settings changes.
MaxTargetFrames == 3

TargetPayload(generation, miscGeneration, path, retro, size) ==
    [ShaderPayload(generation, path, retro, TRUE)
        EXCEPT !.miscGeneration = miscGeneration, !.targetSize = size]

TargetPayloads ==
    {TargetPayload(1, 1, path, retro, size) :
        path \in ShaderPaths, retro \in BOOLEAN, size \in TargetSizes}

\* The same settings again, a swap chain of another size, changed misc
\* settings, or both.
NextTargetPayloads(prev) ==
    {prev}
    \cup {[prev EXCEPT !.generation = @ + 1, !.targetSize = size] :
             size \in TargetSizes \ {prev.targetSize}}
    \cup {TargetPayload(prev.generation + 1, prev.miscGeneration + 1, path, retro, size) :
             path \in ShaderPaths, retro \in BOOLEAN, size \in TargetSizes}

\* A call of Render whose settings may have changed the shader or the size.
Render_BeginTarget ==
    /\ pc = "idle"
    /\ frame < MaxTargetFrames
    /\ \E p \in IF frame = 0 THEN TargetPayloads ELSE NextTargetPayloads(payload) :
          RenderBegin(p)
    /\ UNCHANGED <<call, watcher, steady_clock>>

NextTarget ==
    \/ Render_BeginTarget
    \/ DrawCursorPart1
    \/ DrawText_Begin
    \/ DrawText_Row
    \/ DrawText_Mapping
    \/ DrawText_End
    \/ DrawGridlines
    \/ DrawCursorPart2
    \/ DrawSelection
    \/ FlushQuads
    \/ ExecuteCustomShader
    \/ Present

TargetSpec == Init /\ [][NextTarget]_vars

(***************************************************************************)
(* C33: the last pass of every frame before Present renders into the view  *)
(* of the swap chain's back buffer: the main pass, whose target is         *)
(* _renderTargetView, when no custom shader is active; otherwise the       *)
(* post-process pass, whose target is _customRenderTargetView and whose    *)
(* input is the offscreen texture that the main pass of that frame has     *)
(* rendered into.                                                          *)
(***************************************************************************)
C33_LastPassIntoBackBuffer ==
    pc = "present" =>
        IF backend.customPixelShader
        THEN /\ backend.postProcessed
             /\ backend.customRenderTargetView = BackBuffer
             /\ backend.customOffscreenTexture = backend.renderTargetView
             /\ backend.renderTargetView \notin {NoView, BackBuffer}
        ELSE /\ ~backend.postProcessed
             /\ backend.renderTargetView = BackBuffer

(***************************************************************************)
(* Frames whose misc settings name every kind of shader: none, the retro   *)
(* effect, a shader that reads the time, one that does not, one that       *)
(* cannot be introspected and one that does not compile.                   *)
(***************************************************************************)
MaxRedrawFrames == 3

RedrawPaths == {"", "shader.hlsl", "static.hlsl", "opaque.hlsl", "broken.hlsl"}

RedrawPayloads ==
    {ShaderPayload(1, path, retro, TRUE) : path \in RedrawPaths, retro \in BOOLEAN}

\* The same settings again, or changed misc settings.
NextRedrawPayloads(prev) ==
    {prev} \cup {ShaderPayload(prev.generation + 1, path, retro, TRUE) :
                    path \in RedrawPaths, retro \in BOOLEAN}

Render_BeginRedraw ==
    /\ pc = "idle"
    /\ frame < MaxRedrawFrames
    /\ \E p \in IF frame = 0 THEN RedrawPayloads ELSE NextRedrawPayloads(payload) :
          RenderBegin(p)
    /\ UNCHANGED <<call, watcher, steady_clock>>

NextRedraw ==
    \/ Render_BeginRedraw
    \/ DrawCursorPart1
    \/ DrawText_Begin
    \/ DrawText_Row
    \/ DrawText_Mapping
    \/ DrawText_End
    \/ DrawGridlines
    \/ DrawCursorPart2
    \/ DrawSelection
    \/ FlushQuads
    \/ ExecuteCustomShader
    \/ Present

RedrawSpec == Init /\ [][NextRedraw]_vars

\* BackendD3D::RequiresContinuousRedraw
RequiresContinuousRedraw(s) == s.requiresContinuousRedraw

(***************************************************************************)
(* C34: once a frame has synchronised the settings,                        *)
(* RequiresContinuousRedraw() returns true only if a custom pixel shader   *)
(* is installed, the settings name a user shader (not the retro effect),   *)
(* and the first variable of that shader's constant buffer is used or      *)
(* could not be introspected; so it returns false when no post-process     *)
(* shader is active, also after a user shader failed to compile.           *)
(***************************************************************************)
C34_RedrawOnlyWithUserShader ==
    (frame > 0 /\ RequiresContinuousRedraw(backend)) =>
        /\ backend.customPixelShader
        /\ payload.customPixelShaderPath # ""
        /\ ReflectTime(payload.customPixelShaderPath) # "unused"

(***************************************************************************)
(* Frames of one row of text with every cursor and with or without a       *)
(* custom shader, on an atlas that the glyphs of some rows fill.           *)
(***************************************************************************)
MaxBlendFrames == 2

BlendPayloads ==
    {Payload(1, 1, size, <<row>>, cursor, path) :
        size \in TargetSizes, row \in RowKinds, cursor \in CursorKinds,
        path \in CustomPixelShaderPaths}

Render_BeginBlend ==
    /\ pc = "idle"
    /\ frame < MaxBlendFrames
    /\ \E p \in IF frame = 0 THEN BlendPayloads ELSE NextPayloads(payload) : RenderBegin(p)
    /\ UNCHANGED <<call, watcher, steady_clock>>

NextBlend ==
    \/ Render_BeginBlend
    \/ DrawCursorPart1
    \/ DrawText_Begin
    \/ DrawText_Row
    \/ DrawText_Mapping
    \/ DrawText_Retry
    \/ DrawText_Glyph
    \/ DrawText_RunDone
    \/ DrawText_End
    \/ DrawGridlines
    \/ DrawCursorPart2
    \/ DrawSelection
    \/ FlushQuads
    \/ ExecuteCustomShader
    \/ Present

BlendSpec == Init /\ [][NextBlend]_vars

(***************************************************************************)
(* C35: a quad is drawn with the invert blend state if and only if it is a *)
(* cursor Part 2 quad of a cursor whose color is 0xffffffff; every other   *)
(* quad (background, cursor Part 1, text, gridlines, selection, and Part 2 *)
(* of a colored cursor) is drawn with the standard blend state.  The       *)
(* device's blend state is the standard one when the passes of a frame     *)
(* begin and when the frame has ended, also after mid-frame flushes and    *)
(* after the post-process pass.                                            *)
(***************************************************************************)
C35_InvertOnlyForCursor ==
    /\ \A i \in 1 .. Len(backend.drawn) :
          LET d == backend.drawn[i]
          IN  IF d.quad.phase = "cursor2" /\ IsAutoColor(payload.cursorColor)
              THEN d.blendState = "blendStateInvert"
              ELSE d.blendState = "blendState"
    /\ (frame > 0 /\ pc \in {"cursor1", "present", "idle"}) =>
          backend.blendState = "blendState"

\* A frame with a custom shader has ended whose flushes, one of them in the
\* middle of the text pass, drew text quads, inverted cursor quads and
\* selection quads.
C35_Witness ==
    /\ pc = "idle"
    /\ backend.postProcessed
    /\ Len(backend.drawCalls) > 3
    /\ \E i \in 1 .. Len(backend.drawn) : backend.drawn[i].blendState = "blendStateInvert"
    /\ \E i \in 1 .. Len(backend.drawn) : backend.drawn[i].quad.phase = "text"
    /\ \E i \in 1 .. Len(backend.drawn) : backend.drawn[i].quad.phase = "selection"

(***************************************************************************)
(* Frames whose rows and colors change from one to the next, on a device   *)
(* whose calls may fail: a row without text, a row of narrow glyphs and    *)
(* rows with a wide glyph; the generation of either half of the color      *)
(* bitmap may have been bumped since the last frame, and the cell count    *)
(* may have changed.                                                       *)
(***************************************************************************)
MaxBitmapFrames == 3

BitmapRows ==
    { <<BlankRow(0, 0)>>,
      <<ShapedRow("SingleWidth", <<67, 65>>, <<128, 128>>, <<NoOffset, NoOffset>>,
                  <<Mapping("face", 0, 2)>>, <<>>, 0, 0)>>,
      <<ShapedRow("SingleWidth", <<65, 66, 8212>>, <<128, 128, 256>>,
                  <<NoOffset, NoOffset, NoOffset>>,
                  <<Mapping("face", 0, 3)>>, <<>>, 0, 0)>>,
      <<ShapedRow("SingleWidth", <<8212, 67>>, <<256, 128>>, <<NoOffset, NoOffset>>,
                  <<Mapping("face", 0, 2)>>, <<>>, 0, 0)>> }

BitmapPayload(generation, rows, generations, cellCount) ==
    [Payload(generation, 1, XY(200, 200), rows,
             CHOOSE c \in CursorKinds : CursorRectEmpty(c.cursorRect), "")
        EXCEPT !.colorBitmapGenerations = generations, !.cellCount = cellCount]

BitmapPayloads == {BitmapPayload(1, rows, <<1, 1>>, XY(2, 3)) : rows \in BitmapRows}

\* The colors of the next frame: unchanged, or changed backgrounds, or
\* changed foregrounds.
NextGenerations(g) == {g, <<g[1] + 1, g[2]>>, <<g[1], g[2] + 1>>}

NextBitmapPayloads(prev) ==
    {BitmapPayload(prev.generation, rows, g, prev.cellCount) :
        rows \in BitmapRows, g \in NextGenerations(prev.colorBitmapGenerations)}
    \cup {BitmapPayload(prev.generation + 1, prev.rows, prev.colorBitmapGenerations, cellCount) :
            cellCount \in CellCounts \ {prev.cellCount}}

Render_BeginBitmap ==
    /\ pc = "idle"
    /\ frame < MaxBitmapFrames
    /\ \E p \in IF frame = 0 THEN BitmapPayloads ELSE NextBitmapPayloads(payload) :
          RenderBegin(p)
    /\ UNCHANGED <<call, watcher, steady_clock>>

NextBitmap ==
    \/ Render_BeginBitmap
    \/ DrawCursorPart1
    \/ DrawText_Begin
    \/ DrawText_Row
    \/ DrawText_Mapping
    \/ DrawText_Retry
    \/ DrawText_Glyph
    \/ DrawText_GlyphFails
    \/ DrawText_RunDone
    \/ DrawText_End
    \/ DrawGridlines
    \/ DrawCursorPart2
    \/ DrawSelection
    \/ FlushQuads
    \/ Present

BitmapSpec == Init /\ [][NextBitmap]_vars

(***************************************************************************)
(* C36: every quad is drawn with a color bitmap whose background half has  *)
(* the background generation of the frame's payload, and every text quad   *)
(* with the LigatureMarker flag is drawn with a bitmap whose foreground    *)
(* half has the payload's foreground generation; so an upload of changed   *)
(* foreground colors that a frame without ligatures has skipped is made    *)
(* up for by the first flush that draws a ligature.                        *)
(***************************************************************************)
C36_ColorBitmapCurrent ==
    \A i \in 1 .. Len(backend.drawn) :
        LET d == backend.drawn[i]
        IN  /\ d.colorBitmapGenerations[1] = payload.colorBitmapGenerations[1]
            /\ (d.quad.phase = "text" /\ d.quad.shadingType.ligatureMarker) =>
                  d.colorBitmapGenerations[2] = payload.colorBitmapGenerations[2]

(***************************************************************************)
(* C37: the area that _resetGlyphAtlas hands to the power-of-two           *)
(* computation is at least 128 * 128 for every target size and cell size,  *)
(* so the bit scan is never given 0 and neither u nor v is 0.              *)
(***************************************************************************)
C37_AreaAtLeastMinArea ==
    (call.function = "resetGlyphAtlas" /\ call.returned) =>
        /\ call.area >= 128 * 128
        /\ call.area - 1 # 0
        /\ call.u # 0
        /\ call.v # 0

(***************************************************************************)
(* Successive calls of _resetGlyphAtlas with one cell size and one target  *)
(* size, starting from the empty _rectPacker of a new renderer: every call *)
(* finds the width and height that the call before it has chosen.          *)
(***************************************************************************)
MaxAtlasResets == 8

AtlasGrowthCalls ==
    {[function |-> "resetGlyphAtlasAgain", cellSize |-> cellSize, targetSize |-> targetSize,
      width |-> 0, height |-> 0, resets |-> 0, area |-> 0, u |-> 0, v |-> 0,
      previousArea |-> 0, recreated |-> FALSE] :
        cellSize \in AtlasCellSizes \cup {XY(20, 21)}, targetSize \in AtlasTargetSizes}

InitAtlasGrowth == InitRenderer /\ call \in AtlasGrowthCalls

\* One more _resetGlyphAtlas: the size computation, the test
\* `u != _rectPacker.width || v != _rectPacker.height` that recreates the
\* texture, and stbrp_init_target(&_rectPacker, u, v, ...).
ResetGlyphAtlas_Again ==
    /\ call.function = "resetGlyphAtlasAgain"
    /\ call.resets < MaxAtlasResets
    /\ LET area == AtlasAreaOf(call.cellSize, call.targetSize, call.width, call.height)
       IN  \E index \in AtlasBitIndexOf(area) :
              call' = [call EXCEPT !.resets = @ + 1,
                                   !.previousArea = call.area,
                                   !.area = area,
                                   !.u = call.width, !.v = call.height,
                                   !.width = AtlasU(index), !.height = AtlasV(index),
                                   !.recreated = AtlasU(index) # call.width
                                                    \/ AtlasV(index) # call.height]
    /\ UNCHANGED <<backend, payload, pc, frame, textLocals, watcher, steady_clock, dirty>>

AtlasGrowthSpec == InitAtlasGrowth /\ [][ResetGlyphAtlas_Again]_vars

\* min(maxDeviceArea, 1.25 * viewportArea)
AtlasAreaCap(c) ==
    Min(D3D10_REQ_TEXTURE2D_U_OR_V_DIMENSION * D3D10_REQ_TEXTURE2D_U_OR_V_DIMENSION,
        (c.targetSize.x * c.targetSize.y * 5) \div 4)

(***************************************************************************)
(* C38: with an unchanged target size and cell size, a reset after the     *)
(* first never shrinks the atlas: its width and height are at least those  *)
(* of the reset before.  While the area of the atlas is below the cap      *)
(* min(maxDeviceArea, 1.25 * viewportArea), the reset doubles it; once it  *)
(* has reached the cap, the size stays as it is and the texture is not     *)
(* recreated.  (u, v is the size before the reset, width, height the size  *)
(* after it.)                                                              *)
(***************************************************************************)
C38_ResetsNeverShrink ==
    (call.function = "resetGlyphAtlasAgain" /\ call.resets >= 2) =>
        /\ call.width >= call.u
        /\ call.height >= call.v
        /\ IF call.u * call.v < AtlasAreaCap(call)
           THEN /\ call.width * call.height >= 2
                /\ (call.width * call.height) \div 2 = call.u * call.v
                /\ call.recreated
           ELSE /\ call.width = call.u
                /\ call.height = call.v
                /\ ~call.recreated

(***************************************************************************)
(* Frames of two rows in which glyphs come back: in the same row kind, in  *)
(* the other half of a double-height pair, as whitespace, and in the next  *)
(* frame.                                                                  *)
(***************************************************************************)
MaxCacheFrames == 2

CacheRowSeqs ==
    {rows \in SeqsOfLength(RowKinds, 2) :
        \/ rows[1] = rows[2] /\ rows[1].glyphIndices # <<>>
        \/ rows[1].lineRendition = "DoubleHeightTop"
               /\ rows[2].lineRendition = "DoubleHeightBottom"
        \/ rows[1].lineRendition = "DoubleHeightBottom"
               /\ rows[2].lineRendition = "DoubleHeightTop"
        \/ rows[1].lineRendition = "SingleWidth" /\ rows[2].lineRendition = "SingleWidth"
               /\ Len(rows[1].glyphIndices) = 3 /\ Len(rows[2].glyphIndices) = 3}

CachePayloads ==
    {Payload(1, 1, size, rows,
             CHOOSE c \in CursorKinds : CursorRectEmpty(c.cursorRect), "") :
        size \in TargetSizes, rows \in CacheRowSeqs}

Render_BeginCache ==
    /\ pc = "idle"
    /\ frame < MaxCacheFrames
    /\ \E p \in IF frame = 0 THEN CachePayloads ELSE NextPayloads(payload) : RenderBegin(p)
    /\ UNCHANGED <<call, watcher, steady_clock>>

NextCache ==
    \/ Render_BeginCache
    \/ DrawCursorPart1
    \/ DrawText_Begin
    \/ DrawText_Row
    \/ DrawText_Mapping
    \/ DrawText_Retry
    \/ DrawText_Glyph
    \/ DrawText_RunDone
    \/ DrawText_End
    \/ DrawGridlines
    \/ DrawCursorPart2
    \/ DrawSelection
    \/ FlushQuads
    \/ Present

CacheSpec == Init /\ [][NextCache]_vars

\* What one rasterization serves: a glyph of a font face in one line
\* rendition, the two double-height renditions taken together.
RasterizationOf(le) ==
    [fontFace |-> le.key.fontFace, glyphIndex |-> le.entry.glyphIndex,
     lineRendition |-> IF IsDoubleHeight(le.key.lineRendition)
                       THEN "DoubleHeight" ELSE le.key.lineRendition]

(***************************************************************************)
(* C39: within one atlas generation each key is rasterized at most once.   *)
(* The rects packed since the last reset are exactly one for every glyph   *)
(* with a black box that has a live entry, the two halves of a             *)
(* double-height split counting as one: a lookup that finds an entry, be   *)
(* it a Default one or the sibling half of a split, packs nothing.         *)
(***************************************************************************)
C39_RasterizedOncePerGeneration ==
    Cardinality(backend.rectPacker.rects)
        = Cardinality({RasterizationOf(le) : le \in RasterizedEntries})

\* The second frame has drawn its text from the entries of the first: no
\* reset in between, several rects packed, a glyph that occurs in both rows
\* and the two halves of a split among the entries.
C39_Witness ==
    /\ frame = 2
    /\ pc = "textEnd"
    /\ backend.resetsInFrame = 0
    /\ backend.before.fontGeneration = payload.fontGeneration
    /\ Cardinality(backend.rectPacker.rects) >= 2
    /\ Len(SelectSeq(backend.instances, IsTextQuad)) >= 4
    /\ \E le \in RasterizedEntries : le.key.lineRendition = "DoubleHeightBottom"
    /\ \E le \in RasterizedEntries : le.key.lineRendition = "DoubleHeightTop"
    /\ \E le \in LiveEntries(backend.glyphAtlasMap) :
          le.entry.shadingType = ShadingDefault

(***************************************************************************)
(* The cells of row y that the quad q covers: those whose rectangle of     *)
(* cellSize pixels meets the rectangle of q.                               *)
(***************************************************************************)
CellsCoveredBy(q, y) ==
    IF q.position.y < (y + 1) * Font.cellSize.y /\ y * Font.cellSize.y < q.position.y + q.size.y
    THEN {x \in 0 .. 3 :
            q.position.x < (x + 1) * Font.cellSize.x
                /\ x * Font.cellSize.x < q.position.x + q.size.x}
    ELSE {}

\* The cells of row y that are covered by a selection quad.
SelectionCoverage(y) ==
    LET quads == SelectSeq(backend.instances, IsSelectionQuad)
    IN  UNION {CellsCoveredBy(quads[i], y) : i \in 1 .. Len(quads)}

(***************************************************************************)
(* C40: when the selection pass is over, the selection quads cover exactly *)
(* the selected cells: in a row with selectionTo > selectionFrom the cells *)
(* selectionFrom .. selectionTo - 1, and no cell of a row without a        *)
(* selection, also when rows with the same selection are separated by rows *)
(* without one.                                                            *)
(***************************************************************************)
C40_SelectionCoversSelectedCells ==
    pc = "flush" =>
        \A y \in 0 .. Len(payload.rows) - 1 :
            LET row == payload.rows[y + 1]
            IN  SelectionCoverage(y) =
                    IF HasSelection(row)
                    THEN row.selectionFrom .. row.selectionTo - 1
                    ELSE {}

====
